---- MODULE Spec2Model ----
(***************************************************************************)
(* ASR-Comparative: the text normalizer (tools/normalize.py), the NLU      *)
(* evaluator (tools/nlu_utils.py) and the WER scorer (tools/wer_utils.py). *)
(*                                                                         *)
(* A Python str is the sequence of the Unicode code points of its          *)
(* characters; the labels of results, columns and slots, which the code    *)
(* only compares for equality, are TLA+ strings.  The three components     *)
(* share no state; each has its own specification:                         *)
(*   Spec      normalize(), the number converter total                     *)
(*   SpecConv  normalize(), the number converter a black box that may fail *)
(*   SpecNLU   NLUEvaluator.evaluate_dataset                               *)
(*   SpecWER   calculate_wer_from_dataframe                                *)
(***************************************************************************)
EXTENDS Integers, Sequences, FiniteSets, TLC

VARIABLES
    raw,        \* normalize: the argument of the outermost call
    text,       \* normalize: the local variable `text`
    step,       \* normalize: the pass that runs next (or "done" / "raised")
    run,        \* normalize: 1 in normalize(x), 2 in normalize(normalize(x))
    first,      \* normalize: what the first call returned
    converter,  \* normalize: "total", or "partial" when num2words may raise
    nlu,        \* evaluate_dataset: the evaluator's state
    wer         \* calculate_wer_from_dataframe: the scorer's state

normVars == <<raw, text, step, run, first, converter>>
vars == <<raw, text, step, run, first, converter, nlu, wer>>

(***************************************************************************)
(* Bounds of the model.                                                    *)
(***************************************************************************)
MaxLen == 3
MaxDigits == 4
MaxGroups == 3
MaxRecords == 2
MaxGT == 2
MaxRows == 2

(***************************************************************************)
(* Character tables.  A character is its Unicode code point; the tables    *)
(* are those of CPython 3.11 (Unicode 14.0.0), which decide str.lower,     *)
(* str.strip, int and the classes \d, \s and \w of the re module.  A       *)
(* table of ranges is sorted and its ranges <<lo, hi>> are disjoint.       *)
(***************************************************************************)
\* \d, and the digits int() accepts: the decimal digits (category Nd), one
\* range per script; the k-th character of a range is the digit k - 1
DigitRanges ==
    << <<48, 57>>, <<1632, 1641>>, <<1776, 1785>>, <<1984, 1993>>,
       <<2406, 2415>>, <<2534, 2543>>, <<2662, 2671>>, <<2790, 2799>>,
       <<2918, 2927>>, <<3046, 3055>>, <<3174, 3183>>, <<3302, 3311>>,
       <<3430, 3439>>, <<3558, 3567>>, <<3664, 3673>>, <<3792, 3801>>,
       <<3872, 3881>>, <<4160, 4169>>, <<4240, 4249>>, <<6112, 6121>>,
       <<6160, 6169>>, <<6470, 6479>>, <<6608, 6617>>, <<6784, 6793>>,
       <<6800, 6809>>, <<6992, 7001>>, <<7088, 7097>>, <<7232, 7241>>,
       <<7248, 7257>>, <<42528, 42537>>, <<43216, 43225>>, <<43264, 43273>>,
       <<43472, 43481>>, <<43504, 43513>>, <<43600, 43609>>, <<44016, 44025>>,
       <<65296, 65305>>, <<66720, 66729>>, <<68912, 68921>>, <<69734, 69743>>,
       <<69872, 69881>>, <<69942, 69951>>, <<70096, 70105>>, <<70384, 70393>>,
       <<70736, 70745>>, <<70864, 70873>>, <<71248, 71257>>, <<71360, 71369>>,
       <<71472, 71481>>, <<71904, 71913>>, <<72016, 72025>>, <<72784, 72793>>,
       <<73040, 73049>>, <<73120, 73129>>, <<92768, 92777>>, <<92864, 92873>>,
       <<93008, 93017>>, <<120782, 120791>>, <<120792, 120801>>,
       <<120802, 120811>>, <<120812, 120821>>, <<120822, 120831>>,
       <<123200, 123209>>, <<123632, 123641>>, <<125264, 125273>>,
       <<130032, 130041>> >>

\* \w: the alphanumeric characters (str.isalnum) and '_'
WordRanges ==
    << <<48, 57>>, <<65, 90>>, <<95, 95>>, <<97, 122>>, <<170, 170>>,
       <<178, 179>>, <<181, 181>>, <<185, 186>>, <<188, 190>>, <<192, 214>>,
       <<216, 246>>, <<248, 705>>, <<710, 721>>, <<736, 740>>, <<748, 748>>,
       <<750, 750>>, <<880, 884>>, <<886, 887>>, <<890, 893>>, <<895, 895>>,
       <<902, 902>>, <<904, 906>>, <<908, 908>>, <<910, 929>>, <<931, 1013>>,
       <<1015, 1153>>, <<1162, 1327>>, <<1329, 1366>>, <<1369, 1369>>,
       <<1376, 1416>>, <<1488, 1514>>, <<1519, 1522>>, <<1568, 1610>>,
       <<1632, 1641>>, <<1646, 1647>>, <<1649, 1747>>, <<1749, 1749>>,
       <<1765, 1766>>, <<1774, 1788>>, <<1791, 1791>>, <<1808, 1808>>,
       <<1810, 1839>>, <<1869, 1957>>, <<1969, 1969>>, <<1984, 2026>>,
       <<2036, 2037>>, <<2042, 2042>>, <<2048, 2069>>, <<2074, 2074>>,
       <<2084, 2084>>, <<2088, 2088>>, <<2112, 2136>>, <<2144, 2154>>,
       <<2160, 2183>>, <<2185, 2190>>, <<2208, 2249>>, <<2308, 2361>>,
       <<2365, 2365>>, <<2384, 2384>>, <<2392, 2401>>, <<2406, 2415>>,
       <<2417, 2432>>, <<2437, 2444>>, <<2447, 2448>>, <<2451, 2472>>,
       <<2474, 2480>>, <<2482, 2482>>, <<2486, 2489>>, <<2493, 2493>>,
       <<2510, 2510>>, <<2524, 2525>>, <<2527, 2529>>, <<2534, 2545>>,
       <<2548, 2553>>, <<2556, 2556>>, <<2565, 2570>>, <<2575, 2576>>,
       <<2579, 2600>>, <<2602, 2608>>, <<2610, 2611>>, <<2613, 2614>>,
       <<2616, 2617>>, <<2649, 2652>>, <<2654, 2654>>, <<2662, 2671>>,
       <<2674, 2676>>, <<2693, 2701>>, <<2703, 2705>>, <<2707, 2728>>,
       <<2730, 2736>>, <<2738, 2739>>, <<2741, 2745>>, <<2749, 2749>>,
       <<2768, 2768>>, <<2784, 2785>>, <<2790, 2799>>, <<2809, 2809>>,
       <<2821, 2828>>, <<2831, 2832>>, <<2835, 2856>>, <<2858, 2864>>,
       <<2866, 2867>>, <<2869, 2873>>, <<2877, 2877>>, <<2908, 2909>>,
       <<2911, 2913>>, <<2918, 2927>>, <<2929, 2935>>, <<2947, 2947>>,
       <<2949, 2954>>, <<2958, 2960>>, <<2962, 2965>>, <<2969, 2970>>,
       <<2972, 2972>>, <<2974, 2975>>, <<2979, 2980>>, <<2984, 2986>>,
       <<2990, 3001>>, <<3024, 3024>>, <<3046, 3058>>, <<3077, 3084>>,
       <<3086, 3088>>, <<3090, 3112>>, <<3114, 3129>>, <<3133, 3133>>,
       <<3160, 3162>>, <<3165, 3165>>, <<3168, 3169>>, <<3174, 3183>>,
       <<3192, 3198>>, <<3200, 3200>>, <<3205, 3212>>, <<3214, 3216>>,
       <<3218, 3240>>, <<3242, 3251>>, <<3253, 3257>>, <<3261, 3261>>,
       <<3293, 3294>>, <<3296, 3297>>, <<3302, 3311>>, <<3313, 3314>>,
       <<3332, 3340>>, <<3342, 3344>>, <<3346, 3386>>, <<3389, 3389>>,
       <<3406, 3406>>, <<3412, 3414>>, <<3416, 3425>>, <<3430, 3448>>,
       <<3450, 3455>>, <<3461, 3478>>, <<3482, 3505>>, <<3507, 3515>>,
       <<3517, 3517>>, <<3520, 3526>>, <<3558, 3567>>, <<3585, 3632>>,
       <<3634, 3635>>, <<3648, 3654>>, <<3664, 3673>>, <<3713, 3714>>,
       <<3716, 3716>>, <<3718, 3722>>, <<3724, 3747>>, <<3749, 3749>>,
       <<3751, 3760>>, <<3762, 3763>>, <<3773, 3773>>, <<3776, 3780>>,
       <<3782, 3782>>, <<3792, 3801>>, <<3804, 3807>>, <<3840, 3840>>,
       <<3872, 3891>>, <<3904, 3911>>, <<3913, 3948>>, <<3976, 3980>>,
       <<4096, 4138>>, <<4159, 4169>>, <<4176, 4181>>, <<4186, 4189>>,
       <<4193, 4193>>, <<4197, 4198>>, <<4206, 4208>>, <<4213, 4225>>,
       <<4238, 4238>>, <<4240, 4249>>, <<4256, 4293>>, <<4295, 4295>>,
       <<4301, 4301>>, <<4304, 4346>>, <<4348, 4680>>, <<4682, 4685>>,
       <<4688, 4694>>, <<4696, 4696>>, <<4698, 4701>>, <<4704, 4744>>,
       <<4746, 4749>>, <<4752, 4784>>, <<4786, 4789>>, <<4792, 4798>>,
       <<4800, 4800>>, <<4802, 4805>>, <<4808, 4822>>, <<4824, 4880>>,
       <<4882, 4885>>, <<4888, 4954>>, <<4969, 4988>>, <<4992, 5007>>,
       <<5024, 5109>>, <<5112, 5117>>, <<5121, 5740>>, <<5743, 5759>>,
       <<5761, 5786>>, <<5792, 5866>>, <<5870, 5880>>, <<5888, 5905>>,
       <<5919, 5937>>, <<5952, 5969>>, <<5984, 5996>>, <<5998, 6000>>,
       <<6016, 6067>>, <<6103, 6103>>, <<6108, 6108>>, <<6112, 6121>>,
       <<6128, 6137>>, <<6160, 6169>>, <<6176, 6264>>, <<6272, 6276>>,
       <<6279, 6312>>, <<6314, 6314>>, <<6320, 6389>>, <<6400, 6430>>,
       <<6470, 6509>>, <<6512, 6516>>, <<6528, 6571>>, <<6576, 6601>>,
       <<6608, 6618>>, <<6656, 6678>>, <<6688, 6740>>, <<6784, 6793>>,
       <<6800, 6809>>, <<6823, 6823>>, <<6917, 6963>>, <<6981, 6988>>,
       <<6992, 7001>>, <<7043, 7072>>, <<7086, 7141>>, <<7168, 7203>>,
       <<7232, 7241>>, <<7245, 7293>>, <<7296, 7304>>, <<7312, 7354>>,
       <<7357, 7359>>, <<7401, 7404>>, <<7406, 7411>>, <<7413, 7414>>,
       <<7418, 7418>>, <<7424, 7615>>, <<7680, 7957>>, <<7960, 7965>>,
       <<7968, 8005>>, <<8008, 8013>>, <<8016, 8023>>, <<8025, 8025>>,
       <<8027, 8027>>, <<8029, 8029>>, <<8031, 8061>>, <<8064, 8116>>,
       <<8118, 8124>>, <<8126, 8126>>, <<8130, 8132>>, <<8134, 8140>>,
       <<8144, 8147>>, <<8150, 8155>>, <<8160, 8172>>, <<8178, 8180>>,
       <<8182, 8188>>, <<8304, 8305>>, <<8308, 8313>>, <<8319, 8329>>,
       <<8336, 8348>>, <<8450, 8450>>, <<8455, 8455>>, <<8458, 8467>>,
       <<8469, 8469>>, <<8473, 8477>>, <<8484, 8484>>, <<8486, 8486>>,
       <<8488, 8488>>, <<8490, 8493>>, <<8495, 8505>>, <<8508, 8511>>,
       <<8517, 8521>>, <<8526, 8526>>, <<8528, 8585>>, <<9312, 9371>>,
       <<9450, 9471>>, <<10102, 10131>>, <<11264, 11492>>, <<11499, 11502>>,
       <<11506, 11507>>, <<11517, 11517>>, <<11520, 11557>>, <<11559, 11559>>,
       <<11565, 11565>>, <<11568, 11623>>, <<11631, 11631>>, <<11648, 11670>>,
       <<11680, 11686>>, <<11688, 11694>>, <<11696, 11702>>, <<11704, 11710>>,
       <<11712, 11718>>, <<11720, 11726>>, <<11728, 11734>>, <<11736, 11742>>,
       <<11823, 11823>>, <<12293, 12295>>, <<12321, 12329>>, <<12337, 12341>>,
       <<12344, 12348>>, <<12353, 12438>>, <<12445, 12447>>, <<12449, 12538>>,
       <<12540, 12543>>, <<12549, 12591>>, <<12593, 12686>>, <<12690, 12693>>,
       <<12704, 12735>>, <<12784, 12799>>, <<12832, 12841>>, <<12872, 12879>>,
       <<12881, 12895>>, <<12928, 12937>>, <<12977, 12991>>, <<13312, 19903>>,
       <<19968, 42124>>, <<42192, 42237>>, <<42240, 42508>>, <<42512, 42539>>,
       <<42560, 42606>>, <<42623, 42653>>, <<42656, 42735>>, <<42775, 42783>>,
       <<42786, 42888>>, <<42891, 42954>>, <<42960, 42961>>, <<42963, 42963>>,
       <<42965, 42969>>, <<42994, 43009>>, <<43011, 43013>>, <<43015, 43018>>,
       <<43020, 43042>>, <<43056, 43061>>, <<43072, 43123>>, <<43138, 43187>>,
       <<43216, 43225>>, <<43250, 43255>>, <<43259, 43259>>, <<43261, 43262>>,
       <<43264, 43301>>, <<43312, 43334>>, <<43360, 43388>>, <<43396, 43442>>,
       <<43471, 43481>>, <<43488, 43492>>, <<43494, 43518>>, <<43520, 43560>>,
       <<43584, 43586>>, <<43588, 43595>>, <<43600, 43609>>, <<43616, 43638>>,
       <<43642, 43642>>, <<43646, 43695>>, <<43697, 43697>>, <<43701, 43702>>,
       <<43705, 43709>>, <<43712, 43712>>, <<43714, 43714>>, <<43739, 43741>>,
       <<43744, 43754>>, <<43762, 43764>>, <<43777, 43782>>, <<43785, 43790>>,
       <<43793, 43798>>, <<43808, 43814>>, <<43816, 43822>>, <<43824, 43866>>,
       <<43868, 43881>>, <<43888, 44002>>, <<44016, 44025>>, <<44032, 55203>>,
       <<55216, 55238>>, <<55243, 55291>>, <<63744, 64109>>, <<64112, 64217>>,
       <<64256, 64262>>, <<64275, 64279>>, <<64285, 64285>>, <<64287, 64296>>,
       <<64298, 64310>>, <<64312, 64316>>, <<64318, 64318>>, <<64320, 64321>>,
       <<64323, 64324>>, <<64326, 64433>>, <<64467, 64829>>, <<64848, 64911>>,
       <<64914, 64967>>, <<65008, 65019>>, <<65136, 65140>>, <<65142, 65276>>,
       <<65296, 65305>>, <<65313, 65338>>, <<65345, 65370>>, <<65382, 65470>>,
       <<65474, 65479>>, <<65482, 65487>>, <<65490, 65495>>, <<65498, 65500>>,
       <<65536, 65547>>, <<65549, 65574>>, <<65576, 65594>>, <<65596, 65597>>,
       <<65599, 65613>>, <<65616, 65629>>, <<65664, 65786>>, <<65799, 65843>>,
       <<65856, 65912>>, <<65930, 65931>>, <<66176, 66204>>, <<66208, 66256>>,
       <<66273, 66299>>, <<66304, 66339>>, <<66349, 66378>>, <<66384, 66421>>,
       <<66432, 66461>>, <<66464, 66499>>, <<66504, 66511>>, <<66513, 66517>>,
       <<66560, 66717>>, <<66720, 66729>>, <<66736, 66771>>, <<66776, 66811>>,
       <<66816, 66855>>, <<66864, 66915>>, <<66928, 66938>>, <<66940, 66954>>,
       <<66956, 66962>>, <<66964, 66965>>, <<66967, 66977>>, <<66979, 66993>>,
       <<66995, 67001>>, <<67003, 67004>>, <<67072, 67382>>, <<67392, 67413>>,
       <<67424, 67431>>, <<67456, 67461>>, <<67463, 67504>>, <<67506, 67514>>,
       <<67584, 67589>>, <<67592, 67592>>, <<67594, 67637>>, <<67639, 67640>>,
       <<67644, 67644>>, <<67647, 67669>>, <<67672, 67702>>, <<67705, 67742>>,
       <<67751, 67759>>, <<67808, 67826>>, <<67828, 67829>>, <<67835, 67867>>,
       <<67872, 67897>>, <<67968, 68023>>, <<68028, 68047>>, <<68050, 68096>>,
       <<68112, 68115>>, <<68117, 68119>>, <<68121, 68149>>, <<68160, 68168>>,
       <<68192, 68222>>, <<68224, 68255>>, <<68288, 68295>>, <<68297, 68324>>,
       <<68331, 68335>>, <<68352, 68405>>, <<68416, 68437>>, <<68440, 68466>>,
       <<68472, 68497>>, <<68521, 68527>>, <<68608, 68680>>, <<68736, 68786>>,
       <<68800, 68850>>, <<68858, 68899>>, <<68912, 68921>>, <<69216, 69246>>,
       <<69248, 69289>>, <<69296, 69297>>, <<69376, 69415>>, <<69424, 69445>>,
       <<69457, 69460>>, <<69488, 69505>>, <<69552, 69579>>, <<69600, 69622>>,
       <<69635, 69687>>, <<69714, 69743>>, <<69745, 69746>>, <<69749, 69749>>,
       <<69763, 69807>>, <<69840, 69864>>, <<69872, 69881>>, <<69891, 69926>>,
       <<69942, 69951>>, <<69956, 69956>>, <<69959, 69959>>, <<69968, 70002>>,
       <<70006, 70006>>, <<70019, 70066>>, <<70081, 70084>>, <<70096, 70106>>,
       <<70108, 70108>>, <<70113, 70132>>, <<70144, 70161>>, <<70163, 70187>>,
       <<70272, 70278>>, <<70280, 70280>>, <<70282, 70285>>, <<70287, 70301>>,
       <<70303, 70312>>, <<70320, 70366>>, <<70384, 70393>>, <<70405, 70412>>,
       <<70415, 70416>>, <<70419, 70440>>, <<70442, 70448>>, <<70450, 70451>>,
       <<70453, 70457>>, <<70461, 70461>>, <<70480, 70480>>, <<70493, 70497>>,
       <<70656, 70708>>, <<70727, 70730>>, <<70736, 70745>>, <<70751, 70753>>,
       <<70784, 70831>>, <<70852, 70853>>, <<70855, 70855>>, <<70864, 70873>>,
       <<71040, 71086>>, <<71128, 71131>>, <<71168, 71215>>, <<71236, 71236>>,
       <<71248, 71257>>, <<71296, 71338>>, <<71352, 71352>>, <<71360, 71369>>,
       <<71424, 71450>>, <<71472, 71483>>, <<71488, 71494>>, <<71680, 71723>>,
       <<71840, 71922>>, <<71935, 71942>>, <<71945, 71945>>, <<71948, 71955>>,
       <<71957, 71958>>, <<71960, 71983>>, <<71999, 71999>>, <<72001, 72001>>,
       <<72016, 72025>>, <<72096, 72103>>, <<72106, 72144>>, <<72161, 72161>>,
       <<72163, 72163>>, <<72192, 72192>>, <<72203, 72242>>, <<72250, 72250>>,
       <<72272, 72272>>, <<72284, 72329>>, <<72349, 72349>>, <<72368, 72440>>,
       <<72704, 72712>>, <<72714, 72750>>, <<72768, 72768>>, <<72784, 72812>>,
       <<72818, 72847>>, <<72960, 72966>>, <<72968, 72969>>, <<72971, 73008>>,
       <<73030, 73030>>, <<73040, 73049>>, <<73056, 73061>>, <<73063, 73064>>,
       <<73066, 73097>>, <<73112, 73112>>, <<73120, 73129>>, <<73440, 73458>>,
       <<73648, 73648>>, <<73664, 73684>>, <<73728, 74649>>, <<74752, 74862>>,
       <<74880, 75075>>, <<77712, 77808>>, <<77824, 78894>>, <<82944, 83526>>,
       <<92160, 92728>>, <<92736, 92766>>, <<92768, 92777>>, <<92784, 92862>>,
       <<92864, 92873>>, <<92880, 92909>>, <<92928, 92975>>, <<92992, 92995>>,
       <<93008, 93017>>, <<93019, 93025>>, <<93027, 93047>>, <<93053, 93071>>,
       <<93760, 93846>>, <<93952, 94026>>, <<94032, 94032>>, <<94099, 94111>>,
       <<94176, 94177>>, <<94179, 94179>>, <<94208, 100343>>, <<100352, 101589>>,
       <<101632, 101640>>, <<110576, 110579>>, <<110581, 110587>>,
       <<110589, 110590>>, <<110592, 110882>>, <<110928, 110930>>,
       <<110948, 110951>>, <<110960, 111355>>, <<113664, 113770>>,
       <<113776, 113788>>, <<113792, 113800>>, <<113808, 113817>>,
       <<119520, 119539>>, <<119648, 119672>>, <<119808, 119892>>,
       <<119894, 119964>>, <<119966, 119967>>, <<119970, 119970>>,
       <<119973, 119974>>, <<119977, 119980>>, <<119982, 119993>>,
       <<119995, 119995>>, <<119997, 120003>>, <<120005, 120069>>,
       <<120071, 120074>>, <<120077, 120084>>, <<120086, 120092>>,
       <<120094, 120121>>, <<120123, 120126>>, <<120128, 120132>>,
       <<120134, 120134>>, <<120138, 120144>>, <<120146, 120485>>,
       <<120488, 120512>>, <<120514, 120538>>, <<120540, 120570>>,
       <<120572, 120596>>, <<120598, 120628>>, <<120630, 120654>>,
       <<120656, 120686>>, <<120688, 120712>>, <<120714, 120744>>,
       <<120746, 120770>>, <<120772, 120779>>, <<120782, 120831>>,
       <<122624, 122654>>, <<123136, 123180>>, <<123191, 123197>>,
       <<123200, 123209>>, <<123214, 123214>>, <<123536, 123565>>,
       <<123584, 123627>>, <<123632, 123641>>, <<124896, 124902>>,
       <<124904, 124907>>, <<124909, 124910>>, <<124912, 124926>>,
       <<124928, 125124>>, <<125127, 125135>>, <<125184, 125251>>,
       <<125259, 125259>>, <<125264, 125273>>, <<126065, 126123>>,
       <<126125, 126127>>, <<126129, 126132>>, <<126209, 126253>>,
       <<126255, 126269>>, <<126464, 126467>>, <<126469, 126495>>,
       <<126497, 126498>>, <<126500, 126500>>, <<126503, 126503>>,
       <<126505, 126514>>, <<126516, 126519>>, <<126521, 126521>>,
       <<126523, 126523>>, <<126530, 126530>>, <<126535, 126535>>,
       <<126537, 126537>>, <<126539, 126539>>, <<126541, 126543>>,
       <<126545, 126546>>, <<126548, 126548>>, <<126551, 126551>>,
       <<126553, 126553>>, <<126555, 126555>>, <<126557, 126557>>,
       <<126559, 126559>>, <<126561, 126562>>, <<126564, 126564>>,
       <<126567, 126570>>, <<126572, 126578>>, <<126580, 126583>>,
       <<126585, 126588>>, <<126590, 126590>>, <<126592, 126601>>,
       <<126603, 126619>>, <<126625, 126627>>, <<126629, 126633>>,
       <<126635, 126651>>, <<127232, 127244>>, <<130032, 130041>>,
       <<131072, 173791>>, <<173824, 177976>>, <<177984, 178205>>,
       <<178208, 183969>>, <<183984, 191456>>, <<194560, 195101>>,
       <<196608, 201546>> >>

\* str.lower on one character: <<lo, hi, step, delta>> says that the
\* characters lo, lo + step, ..., hi map to themselves plus delta; every
\* other character but U+0130 maps to itself
LowerRuns ==
    << <<65, 90, 1, 32>>, <<192, 214, 1, 32>>, <<216, 222, 1, 32>>,
       <<256, 302, 2, 1>>, <<306, 310, 2, 1>>, <<313, 327, 2, 1>>,
       <<330, 374, 2, 1>>, <<376, 376, 1, -121>>, <<377, 381, 2, 1>>,
       <<385, 385, 1, 210>>, <<386, 388, 2, 1>>, <<390, 390, 1, 206>>,
       <<391, 391, 1, 1>>, <<393, 394, 1, 205>>, <<395, 395, 1, 1>>,
       <<398, 398, 1, 79>>, <<399, 399, 1, 202>>, <<400, 400, 1, 203>>,
       <<401, 401, 1, 1>>, <<403, 403, 1, 205>>, <<404, 404, 1, 207>>,
       <<406, 406, 1, 211>>, <<407, 407, 1, 209>>, <<408, 408, 1, 1>>,
       <<412, 412, 1, 211>>, <<413, 413, 1, 213>>, <<415, 415, 1, 214>>,
       <<416, 420, 2, 1>>, <<422, 422, 1, 218>>, <<423, 423, 1, 1>>,
       <<425, 425, 1, 218>>, <<428, 428, 1, 1>>, <<430, 430, 1, 218>>,
       <<431, 431, 1, 1>>, <<433, 434, 1, 217>>, <<435, 437, 2, 1>>,
       <<439, 439, 1, 219>>, <<440, 440, 1, 1>>, <<444, 444, 1, 1>>,
       <<452, 452, 1, 2>>, <<453, 453, 1, 1>>, <<455, 455, 1, 2>>,
       <<456, 456, 1, 1>>, <<458, 458, 1, 2>>, <<459, 475, 2, 1>>,
       <<478, 494, 2, 1>>, <<497, 497, 1, 2>>, <<498, 500, 2, 1>>,
       <<502, 502, 1, -97>>, <<503, 503, 1, -56>>, <<504, 542, 2, 1>>,
       <<544, 544, 1, -130>>, <<546, 562, 2, 1>>, <<570, 570, 1, 10795>>,
       <<571, 571, 1, 1>>, <<573, 573, 1, -163>>, <<574, 574, 1, 10792>>,
       <<577, 577, 1, 1>>, <<579, 579, 1, -195>>, <<580, 580, 1, 69>>,
       <<581, 581, 1, 71>>, <<582, 590, 2, 1>>, <<880, 882, 2, 1>>,
       <<886, 886, 1, 1>>, <<895, 895, 1, 116>>, <<902, 902, 1, 38>>,
       <<904, 906, 1, 37>>, <<908, 908, 1, 64>>, <<910, 911, 1, 63>>,
       <<913, 929, 1, 32>>, <<931, 939, 1, 32>>, <<975, 975, 1, 8>>,
       <<984, 1006, 2, 1>>, <<1012, 1012, 1, -60>>, <<1015, 1015, 1, 1>>,
       <<1017, 1017, 1, -7>>, <<1018, 1018, 1, 1>>, <<1021, 1023, 1, -130>>,
       <<1024, 1039, 1, 80>>, <<1040, 1071, 1, 32>>, <<1120, 1152, 2, 1>>,
       <<1162, 1214, 2, 1>>, <<1216, 1216, 1, 15>>, <<1217, 1229, 2, 1>>,
       <<1232, 1326, 2, 1>>, <<1329, 1366, 1, 48>>, <<4256, 4293, 1, 7264>>,
       <<4295, 4295, 1, 7264>>, <<4301, 4301, 1, 7264>>,
       <<5024, 5103, 1, 38864>>, <<5104, 5109, 1, 8>>, <<7312, 7354, 1, -3008>>,
       <<7357, 7359, 1, -3008>>, <<7680, 7828, 2, 1>>, <<7838, 7838, 1, -7615>>,
       <<7840, 7934, 2, 1>>, <<7944, 7951, 1, -8>>, <<7960, 7965, 1, -8>>,
       <<7976, 7983, 1, -8>>, <<7992, 7999, 1, -8>>, <<8008, 8013, 1, -8>>,
       <<8025, 8031, 2, -8>>, <<8040, 8047, 1, -8>>, <<8072, 8079, 1, -8>>,
       <<8088, 8095, 1, -8>>, <<8104, 8111, 1, -8>>, <<8120, 8121, 1, -8>>,
       <<8122, 8123, 1, -74>>, <<8124, 8124, 1, -9>>, <<8136, 8139, 1, -86>>,
       <<8140, 8140, 1, -9>>, <<8152, 8153, 1, -8>>, <<8154, 8155, 1, -100>>,
       <<8168, 8169, 1, -8>>, <<8170, 8171, 1, -112>>, <<8172, 8172, 1, -7>>,
       <<8184, 8185, 1, -128>>, <<8186, 8187, 1, -126>>, <<8188, 8188, 1, -9>>,
       <<8486, 8486, 1, -7517>>, <<8490, 8490, 1, -8383>>,
       <<8491, 8491, 1, -8262>>, <<8498, 8498, 1, 28>>, <<8544, 8559, 1, 16>>,
       <<8579, 8579, 1, 1>>, <<9398, 9423, 1, 26>>, <<11264, 11311, 1, 48>>,
       <<11360, 11360, 1, 1>>, <<11362, 11362, 1, -10743>>,
       <<11363, 11363, 1, -3814>>, <<11364, 11364, 1, -10727>>,
       <<11367, 11371, 2, 1>>, <<11373, 11373, 1, -10780>>,
       <<11374, 11374, 1, -10749>>, <<11375, 11375, 1, -10783>>,
       <<11376, 11376, 1, -10782>>, <<11378, 11378, 1, 1>>,
       <<11381, 11381, 1, 1>>, <<11390, 11391, 1, -10815>>,
       <<11392, 11490, 2, 1>>, <<11499, 11501, 2, 1>>, <<11506, 11506, 1, 1>>,
       <<42560, 42604, 2, 1>>, <<42624, 42650, 2, 1>>, <<42786, 42798, 2, 1>>,
       <<42802, 42862, 2, 1>>, <<42873, 42875, 2, 1>>,
       <<42877, 42877, 1, -35332>>, <<42878, 42886, 2, 1>>,
       <<42891, 42891, 1, 1>>, <<42893, 42893, 1, -42280>>,
       <<42896, 42898, 2, 1>>, <<42902, 42920, 2, 1>>,
       <<42922, 42922, 1, -42308>>, <<42923, 42923, 1, -42319>>,
       <<42924, 42924, 1, -42315>>, <<42925, 42925, 1, -42305>>,
       <<42926, 42926, 1, -42308>>, <<42928, 42928, 1, -42258>>,
       <<42929, 42929, 1, -42282>>, <<42930, 42930, 1, -42261>>,
       <<42931, 42931, 1, 928>>, <<42932, 42946, 2, 1>>,
       <<42948, 42948, 1, -48>>, <<42949, 42949, 1, -42307>>,
       <<42950, 42950, 1, -35384>>, <<42951, 42953, 2, 1>>,
       <<42960, 42960, 1, 1>>, <<42966, 42968, 2, 1>>, <<42997, 42997, 1, 1>>,
       <<65313, 65338, 1, 32>>, <<66560, 66599, 1, 40>>, <<66736, 66771, 1, 40>>,
       <<66928, 66938, 1, 39>>, <<66940, 66954, 1, 39>>, <<66956, 66962, 1, 39>>,
       <<66964, 66965, 1, 39>>, <<68736, 68786, 1, 64>>, <<71840, 71871, 1, 32>>,
       <<93760, 93791, 1, 32>>, <<125184, 125217, 1, 34>> >>

\* the characters that are cased and not case-ignorable (the Final_Sigma
\* rule of str.lower tests `cased` on such characters only)
CasedRanges ==
    << <<65, 90>>, <<97, 122>>, <<170, 170>>, <<181, 181>>, <<186, 186>>,
       <<192, 214>>, <<216, 246>>, <<248, 442>>, <<444, 447>>, <<452, 659>>,
       <<661, 687>>, <<880, 883>>, <<886, 887>>, <<891, 893>>, <<895, 895>>,
       <<902, 902>>, <<904, 906>>, <<908, 908>>, <<910, 929>>, <<931, 1013>>,
       <<1015, 1153>>, <<1162, 1327>>, <<1329, 1366>>, <<1376, 1416>>,
       <<4256, 4293>>, <<4295, 4295>>, <<4301, 4301>>, <<4304, 4346>>,
       <<4349, 4351>>, <<5024, 5109>>, <<5112, 5117>>, <<7296, 7304>>,
       <<7312, 7354>>, <<7357, 7359>>, <<7424, 7467>>, <<7531, 7543>>,
       <<7545, 7578>>, <<7680, 7957>>, <<7960, 7965>>, <<7968, 8005>>,
       <<8008, 8013>>, <<8016, 8023>>, <<8025, 8025>>, <<8027, 8027>>,
       <<8029, 8029>>, <<8031, 8061>>, <<8064, 8116>>, <<8118, 8124>>,
       <<8126, 8126>>, <<8130, 8132>>, <<8134, 8140>>, <<8144, 8147>>,
       <<8150, 8155>>, <<8160, 8172>>, <<8178, 8180>>, <<8182, 8188>>,
       <<8450, 8450>>, <<8455, 8455>>, <<8458, 8467>>, <<8469, 8469>>,
       <<8473, 8477>>, <<8484, 8484>>, <<8486, 8486>>, <<8488, 8488>>,
       <<8490, 8493>>, <<8495, 8500>>, <<8505, 8505>>, <<8508, 8511>>,
       <<8517, 8521>>, <<8526, 8526>>, <<8544, 8575>>, <<8579, 8580>>,
       <<9398, 9449>>, <<11264, 11387>>, <<11390, 11492>>, <<11499, 11502>>,
       <<11506, 11507>>, <<11520, 11557>>, <<11559, 11559>>, <<11565, 11565>>,
       <<42560, 42605>>, <<42624, 42651>>, <<42786, 42863>>, <<42865, 42887>>,
       <<42891, 42894>>, <<42896, 42954>>, <<42960, 42961>>, <<42963, 42963>>,
       <<42965, 42969>>, <<42997, 42998>>, <<43002, 43002>>, <<43824, 43866>>,
       <<43872, 43880>>, <<43888, 43967>>, <<64256, 64262>>, <<64275, 64279>>,
       <<65313, 65338>>, <<65345, 65370>>, <<66560, 66639>>, <<66736, 66771>>,
       <<66776, 66811>>, <<66928, 66938>>, <<66940, 66954>>, <<66956, 66962>>,
       <<66964, 66965>>, <<66967, 66977>>, <<66979, 66993>>, <<66995, 67001>>,
       <<67003, 67004>>, <<68736, 68786>>, <<68800, 68850>>, <<71840, 71903>>,
       <<93760, 93823>>, <<119808, 119892>>, <<119894, 119964>>,
       <<119966, 119967>>, <<119970, 119970>>, <<119973, 119974>>,
       <<119977, 119980>>, <<119982, 119993>>, <<119995, 119995>>,
       <<119997, 120003>>, <<120005, 120069>>, <<120071, 120074>>,
       <<120077, 120084>>, <<120086, 120092>>, <<120094, 120121>>,
       <<120123, 120126>>, <<120128, 120132>>, <<120134, 120134>>,
       <<120138, 120144>>, <<120146, 120485>>, <<120488, 120512>>,
       <<120514, 120538>>, <<120540, 120570>>, <<120572, 120596>>,
       <<120598, 120628>>, <<120630, 120654>>, <<120656, 120686>>,
       <<120688, 120712>>, <<120714, 120744>>, <<120746, 120770>>,
       <<120772, 120779>>, <<122624, 122633>>, <<122635, 122654>>,
       <<125184, 125251>>, <<127280, 127305>>, <<127312, 127337>>,
       <<127344, 127369>> >>

\* the case-ignorable characters
CaseIgnorableRanges ==
    << <<39, 39>>, <<46, 46>>, <<58, 58>>, <<94, 94>>, <<96, 96>>, <<168, 168>>,
       <<173, 173>>, <<175, 175>>, <<180, 180>>, <<183, 184>>, <<688, 879>>,
       <<884, 885>>, <<890, 890>>, <<900, 901>>, <<903, 903>>, <<1155, 1161>>,
       <<1369, 1369>>, <<1375, 1375>>, <<1425, 1469>>, <<1471, 1471>>,
       <<1473, 1474>>, <<1476, 1477>>, <<1479, 1479>>, <<1524, 1524>>,
       <<1536, 1541>>, <<1552, 1562>>, <<1564, 1564>>, <<1600, 1600>>,
       <<1611, 1631>>, <<1648, 1648>>, <<1750, 1757>>, <<1759, 1768>>,
       <<1770, 1773>>, <<1807, 1807>>, <<1809, 1809>>, <<1840, 1866>>,
       <<1958, 1968>>, <<2027, 2037>>, <<2042, 2042>>, <<2045, 2045>>,
       <<2070, 2093>>, <<2137, 2139>>, <<2184, 2184>>, <<2192, 2193>>,
       <<2200, 2207>>, <<2249, 2306>>, <<2362, 2362>>, <<2364, 2364>>,
       <<2369, 2376>>, <<2381, 2381>>, <<2385, 2391>>, <<2402, 2403>>,
       <<2417, 2417>>, <<2433, 2433>>, <<2492, 2492>>, <<2497, 2500>>,
       <<2509, 2509>>, <<2530, 2531>>, <<2558, 2558>>, <<2561, 2562>>,
       <<2620, 2620>>, <<2625, 2626>>, <<2631, 2632>>, <<2635, 2637>>,
       <<2641, 2641>>, <<2672, 2673>>, <<2677, 2677>>, <<2689, 2690>>,
       <<2748, 2748>>, <<2753, 2757>>, <<2759, 2760>>, <<2765, 2765>>,
       <<2786, 2787>>, <<2810, 2815>>, <<2817, 2817>>, <<2876, 2876>>,
       <<2879, 2879>>, <<2881, 2884>>, <<2893, 2893>>, <<2901, 2902>>,
       <<2914, 2915>>, <<2946, 2946>>, <<3008, 3008>>, <<3021, 3021>>,
       <<3072, 3072>>, <<3076, 3076>>, <<3132, 3132>>, <<3134, 3136>>,
       <<3142, 3144>>, <<3146, 3149>>, <<3157, 3158>>, <<3170, 3171>>,
       <<3201, 3201>>, <<3260, 3260>>, <<3263, 3263>>, <<3270, 3270>>,
       <<3276, 3277>>, <<3298, 3299>>, <<3328, 3329>>, <<3387, 3388>>,
       <<3393, 3396>>, <<3405, 3405>>, <<3426, 3427>>, <<3457, 3457>>,
       <<3530, 3530>>, <<3538, 3540>>, <<3542, 3542>>, <<3633, 3633>>,
       <<3636, 3642>>, <<3654, 3662>>, <<3761, 3761>>, <<3764, 3772>>,
       <<3782, 3782>>, <<3784, 3789>>, <<3864, 3865>>, <<3893, 3893>>,
       <<3895, 3895>>, <<3897, 3897>>, <<3953, 3966>>, <<3968, 3972>>,
       <<3974, 3975>>, <<3981, 3991>>, <<3993, 4028>>, <<4038, 4038>>,
       <<4141, 4144>>, <<4146, 4151>>, <<4153, 4154>>, <<4157, 4158>>,
       <<4184, 4185>>, <<4190, 4192>>, <<4209, 4212>>, <<4226, 4226>>,
       <<4229, 4230>>, <<4237, 4237>>, <<4253, 4253>>, <<4348, 4348>>,
       <<4957, 4959>>, <<5906, 5908>>, <<5938, 5939>>, <<5970, 5971>>,
       <<6002, 6003>>, <<6068, 6069>>, <<6071, 6077>>, <<6086, 6086>>,
       <<6089, 6099>>, <<6103, 6103>>, <<6109, 6109>>, <<6155, 6159>>,
       <<6211, 6211>>, <<6277, 6278>>, <<6313, 6313>>, <<6432, 6434>>,
       <<6439, 6440>>, <<6450, 6450>>, <<6457, 6459>>, <<6679, 6680>>,
       <<6683, 6683>>, <<6742, 6742>>, <<6744, 6750>>, <<6752, 6752>>,
       <<6754, 6754>>, <<6757, 6764>>, <<6771, 6780>>, <<6783, 6783>>,
       <<6823, 6823>>, <<6832, 6862>>, <<6912, 6915>>, <<6964, 6964>>,
       <<6966, 6970>>, <<6972, 6972>>, <<6978, 6978>>, <<7019, 7027>>,
       <<7040, 7041>>, <<7074, 7077>>, <<7080, 7081>>, <<7083, 7085>>,
       <<7142, 7142>>, <<7144, 7145>>, <<7149, 7149>>, <<7151, 7153>>,
       <<7212, 7219>>, <<7222, 7223>>, <<7288, 7293>>, <<7376, 7378>>,
       <<7380, 7392>>, <<7394, 7400>>, <<7405, 7405>>, <<7412, 7412>>,
       <<7416, 7417>>, <<7468, 7530>>, <<7544, 7544>>, <<7579, 7679>>,
       <<8125, 8125>>, <<8127, 8129>>, <<8141, 8143>>, <<8157, 8159>>,
       <<8173, 8175>>, <<8189, 8190>>, <<8203, 8207>>, <<8216, 8217>>,
       <<8228, 8228>>, <<8231, 8231>>, <<8234, 8238>>, <<8288, 8292>>,
       <<8294, 8303>>, <<8305, 8305>>, <<8319, 8319>>, <<8336, 8348>>,
       <<8400, 8432>>, <<11388, 11389>>, <<11503, 11505>>, <<11631, 11631>>,
       <<11647, 11647>>, <<11744, 11775>>, <<11823, 11823>>, <<12293, 12293>>,
       <<12330, 12333>>, <<12337, 12341>>, <<12347, 12347>>, <<12441, 12446>>,
       <<12540, 12542>>, <<40981, 40981>>, <<42232, 42237>>, <<42508, 42508>>,
       <<42607, 42610>>, <<42612, 42621>>, <<42623, 42623>>, <<42652, 42655>>,
       <<42736, 42737>>, <<42752, 42785>>, <<42864, 42864>>, <<42888, 42890>>,
       <<42994, 42996>>, <<43000, 43001>>, <<43010, 43010>>, <<43014, 43014>>,
       <<43019, 43019>>, <<43045, 43046>>, <<43052, 43052>>, <<43204, 43205>>,
       <<43232, 43249>>, <<43263, 43263>>, <<43302, 43309>>, <<43335, 43345>>,
       <<43392, 43394>>, <<43443, 43443>>, <<43446, 43449>>, <<43452, 43453>>,
       <<43471, 43471>>, <<43493, 43494>>, <<43561, 43566>>, <<43569, 43570>>,
       <<43573, 43574>>, <<43587, 43587>>, <<43596, 43596>>, <<43632, 43632>>,
       <<43644, 43644>>, <<43696, 43696>>, <<43698, 43700>>, <<43703, 43704>>,
       <<43710, 43711>>, <<43713, 43713>>, <<43741, 43741>>, <<43756, 43757>>,
       <<43763, 43764>>, <<43766, 43766>>, <<43867, 43871>>, <<43881, 43883>>,
       <<44005, 44005>>, <<44008, 44008>>, <<44013, 44013>>, <<64286, 64286>>,
       <<64434, 64450>>, <<65024, 65039>>, <<65043, 65043>>, <<65056, 65071>>,
       <<65106, 65106>>, <<65109, 65109>>, <<65279, 65279>>, <<65287, 65287>>,
       <<65294, 65294>>, <<65306, 65306>>, <<65342, 65342>>, <<65344, 65344>>,
       <<65392, 65392>>, <<65438, 65439>>, <<65507, 65507>>, <<65529, 65531>>,
       <<66045, 66045>>, <<66272, 66272>>, <<66422, 66426>>, <<67456, 67461>>,
       <<67463, 67504>>, <<67506, 67514>>, <<68097, 68099>>, <<68101, 68102>>,
       <<68108, 68111>>, <<68152, 68154>>, <<68159, 68159>>, <<68325, 68326>>,
       <<68900, 68903>>, <<69291, 69292>>, <<69446, 69456>>, <<69506, 69509>>,
       <<69633, 69633>>, <<69688, 69702>>, <<69744, 69744>>, <<69747, 69748>>,
       <<69759, 69761>>, <<69811, 69814>>, <<69817, 69818>>, <<69821, 69821>>,
       <<69826, 69826>>, <<69837, 69837>>, <<69888, 69890>>, <<69927, 69931>>,
       <<69933, 69940>>, <<70003, 70003>>, <<70016, 70017>>, <<70070, 70078>>,
       <<70089, 70092>>, <<70095, 70095>>, <<70191, 70193>>, <<70196, 70196>>,
       <<70198, 70199>>, <<70206, 70206>>, <<70367, 70367>>, <<70371, 70378>>,
       <<70400, 70401>>, <<70459, 70460>>, <<70464, 70464>>, <<70502, 70508>>,
       <<70512, 70516>>, <<70712, 70719>>, <<70722, 70724>>, <<70726, 70726>>,
       <<70750, 70750>>, <<70835, 70840>>, <<70842, 70842>>, <<70847, 70848>>,
       <<70850, 70851>>, <<71090, 71093>>, <<71100, 71101>>, <<71103, 71104>>,
       <<71132, 71133>>, <<71219, 71226>>, <<71229, 71229>>, <<71231, 71232>>,
       <<71339, 71339>>, <<71341, 71341>>, <<71344, 71349>>, <<71351, 71351>>,
       <<71453, 71455>>, <<71458, 71461>>, <<71463, 71467>>, <<71727, 71735>>,
       <<71737, 71738>>, <<71995, 71996>>, <<71998, 71998>>, <<72003, 72003>>,
       <<72148, 72151>>, <<72154, 72155>>, <<72160, 72160>>, <<72193, 72202>>,
       <<72243, 72248>>, <<72251, 72254>>, <<72263, 72263>>, <<72273, 72278>>,
       <<72281, 72283>>, <<72330, 72342>>, <<72344, 72345>>, <<72752, 72758>>,
       <<72760, 72765>>, <<72767, 72767>>, <<72850, 72871>>, <<72874, 72880>>,
       <<72882, 72883>>, <<72885, 72886>>, <<73009, 73014>>, <<73018, 73018>>,
       <<73020, 73021>>, <<73023, 73029>>, <<73031, 73031>>, <<73104, 73105>>,
       <<73109, 73109>>, <<73111, 73111>>, <<73459, 73460>>, <<78896, 78904>>,
       <<92912, 92916>>, <<92976, 92982>>, <<92992, 92995>>, <<94031, 94031>>,
       <<94095, 94111>>, <<94176, 94177>>, <<94179, 94180>>, <<110576, 110579>>,
       <<110581, 110587>>, <<110589, 110590>>, <<113821, 113822>>,
       <<113824, 113827>>, <<118528, 118573>>, <<118576, 118598>>,
       <<119143, 119145>>, <<119155, 119170>>, <<119173, 119179>>,
       <<119210, 119213>>, <<119362, 119364>>, <<121344, 121398>>,
       <<121403, 121452>>, <<121461, 121461>>, <<121476, 121476>>,
       <<121499, 121503>>, <<121505, 121519>>, <<122880, 122886>>,
       <<122888, 122904>>, <<122907, 122913>>, <<122915, 122916>>,
       <<122918, 122922>>, <<123184, 123197>>, <<123566, 123566>>,
       <<123628, 123631>>, <<125136, 125142>>, <<125252, 125259>>,
       <<127995, 127999>>, <<917505, 917505>>, <<917536, 917631>>,
       <<917760, 917999>> >>

\* re/_casefix.py: under re.IGNORECASE the lower-case character c also
\* stands for the characters ExtraCases[c]
ExtraCases ==
    (105 :> {305}) @@ (115 :> {383}) @@ (181 :> {956}) @@ (305 :> {105}) @@
    (383 :> {115}) @@ (837 :> {953, 8126}) @@ (912 :> {8147}) @@
    (944 :> {8163}) @@ (946 :> {976}) @@ (949 :> {1013}) @@ (952 :> {977}) @@
    (953 :> {837, 8126}) @@ (954 :> {1008}) @@ (956 :> {181}) @@
    (960 :> {982}) @@ (961 :> {1009}) @@ (962 :> {963}) @@ (963 :> {962}) @@
    (966 :> {981}) @@ (976 :> {946}) @@ (977 :> {952}) @@ (981 :> {966}) @@
    (982 :> {960}) @@ (1008 :> {954}) @@ (1009 :> {961}) @@ (1013 :> {949}) @@
    (1074 :> {7296}) @@ (1076 :> {7297}) @@ (1086 :> {7298}) @@
    (1089 :> {7299}) @@ (1090 :> {7300, 7301}) @@ (1098 :> {7302}) @@
    (1123 :> {7303}) @@ (7296 :> {1074}) @@ (7297 :> {1076}) @@
    (7298 :> {1086}) @@ (7299 :> {1089}) @@ (7300 :> {1090, 7301}) @@
    (7301 :> {1090, 7300}) @@ (7302 :> {1098}) @@ (7303 :> {1123}) @@
    (7304 :> {42571}) @@ (7777 :> {7835}) @@ (7835 :> {7777}) @@
    (8126 :> {837, 953}) @@ (8147 :> {912}) @@ (8163 :> {944}) @@
    (42571 :> {7304}) @@ (64261 :> {64262}) @@ (64262 :> {64261})

(***************************************************************************)
(* Characters: the classes \d, \s, \w and [a-zA-Záéíóúñ] of the regular    *)
(* expressions in normalize.py, str.lower and re.IGNORECASE.               *)
(***************************************************************************)
\* the index of the range of a table that holds c, or 0 (binary search
\* between the indices lo and hi)
RECURSIVE RangeIndex(_, _, _, _)
RangeIndex(table, c, lo, hi) ==
    IF lo > hi THEN 0
    ELSE LET mid == (lo + hi) \div 2 IN
         IF c < table[mid][1] THEN RangeIndex(table, c, lo, mid - 1)
         ELSE IF c > table[mid][2] THEN RangeIndex(table, c, mid + 1, hi)
         ELSE mid

InRanges(table, c) == RangeIndex(table, c, 1, Len(table)) # 0

\* the characters U+0000..U+00FF, for which the lookups in the tables are
\* made once
Latin1 == 0..255

DigitsLatin1 == {c \in Latin1 : InRanges(DigitRanges, c)}

\* \d
IsDigit(c) == IF c \in Latin1 THEN c \in DigitsLatin1 ELSE InRanges(DigitRanges, c)

\* \s, and what str.strip removes
Spaces ==
    (9..13) \cup (28..32) \cup {133, 160, 5760} \cup (8192..8202)
        \cup {8232, 8233, 8239, 8287, 12288}

IsSpace(c) == c \in Spaces

\* [a-zA-Záéíóúñ]
Letters == (97..122) \cup (65..90) \cup {225, 233, 237, 243, 250, 241}   \* 'a', 'z', 'A', 'Z', 'á', 'é', 'í', 'ó', 'ú', 'ñ'

IsLetter(c) == c \in Letters

WordCharsLatin1 == {c \in Latin1 : InRanges(WordRanges, c)}

\* \w on a str pattern
IsWordChar(c) == IF c \in Latin1 THEN c \in WordCharsLatin1 ELSE InRanges(WordRanges, c)

\* the simple lower-case mapping of one character (what re.IGNORECASE
\* compares); U+0130 maps to 'i'
LowerInRuns(c) ==
    IF c = 304 THEN 105   \* 'i'
    ELSE LET k == RangeIndex(LowerRuns, c, 1, Len(LowerRuns)) IN
         IF k # 0 /\ (c - LowerRuns[k][1]) % LowerRuns[k][3] = 0
         THEN c + LowerRuns[k][4]
         ELSE c

LowerLatin1 == [c \in Latin1 |-> LowerInRuns(c)]

Lower1(c) == IF c \in Latin1 THEN LowerLatin1[c] ELSE LowerInRuns(c)

IsCased(c) == InRanges(CasedRanges, c)

IsCaseIgnorable(c) == InRanges(CaseIgnorableRanges, c)

\* the nearest position at or before j (at or after j) whose character is
\* not case-ignorable; 0 (Len(s) + 1) when there is none
RECURSIVE SkipBack(_, _)
SkipBack(s, j) == IF j >= 1 /\ IsCaseIgnorable(s[j]) THEN SkipBack(s, j - 1) ELSE j

RECURSIVE SkipForward(_, _)
SkipForward(s, j) == IF j <= Len(s) /\ IsCaseIgnorable(s[j]) THEN SkipForward(s, j + 1) ELSE j

\* the capital sigma at position i ends a word (Final_Sigma): a cased
\* character precedes it and none follows, case-ignorable ones skipped
final_sigma(s, i) ==
    /\ SkipBack(s, i - 1) >= 1
    /\ IsCased(s[SkipBack(s, i - 1)])
    /\ SkipForward(s, i + 1) > Len(s) \/ ~IsCased(s[SkipForward(s, i + 1)])

\* what str.lower writes for the character at position i: U+03A3 becomes
\* U+03C2 at the end of a word and U+03C3 elsewhere, U+0130 becomes 'i'
\* and U+0307
LowerAt(s, i) ==
    IF s[i] = 931 THEN (IF final_sigma(s, i) THEN <<962>> ELSE <<963>>)
    ELSE IF s[i] = 304 THEN <<105, 775>>   \* 'i'
    ELSE <<Lower1(s[i])>>

RECURSIVE LowerFrom(_, _)
LowerFrom(s, i) == IF i > Len(s) THEN <<>> ELSE LowerAt(s, i) \o LowerFrom(s, i + 1)

\* str.lower
lower(s) == LowerFrom(s, 1)

\* re.IGNORECASE: the character t of the text matches the literal p of the pattern
IgnoreCaseMatch(t, p) ==
    \/ Lower1(t) = Lower1(p)
    \/ Lower1(p) \in DOMAIN ExtraCases /\ Lower1(t) \in ExtraCases[Lower1(p)]

\* int(digit) for one decimal digit
DigitValue(c) == c - DigitRanges[RangeIndex(DigitRanges, c, 1, Len(DigitRanges))][1]

\* \b at the gap before position p of s (p in 1..Len(s)+1)
WordAt(s, q) == q >= 1 /\ q <= Len(s) /\ IsWordChar(s[q])

Boundary(s, p) == WordAt(s, p - 1) # WordAt(s, p)

RECURSIVE Join(_, _)
Join(ss, sep) ==
    IF ss = <<>> THEN <<>>
    ELSE IF Len(ss) = 1 THEN ss[1]
    ELSE ss[1] \o sep \o Join(Tail(ss), sep)

(***************************************************************************)
(* num2words(n, lang='es') for 0 <= n <= 999, the only arguments           *)
(* convert_number passes: a digit, or a run of at most 3 digits.           *)
(***************************************************************************)
LowNumwords ==
    << <<99, 101, 114, 111>>, <<117, 110, 111>>, <<100, 111, 115>>, <<116, 114, 101, 115>>, <<99, 117, 97, 116, 114, 111>>, <<99, 105, 110, 99, 111>>, <<115, 101, 105, 115>>,   \* "cero", "uno", "dos", "tres", "cuatro", "cinco", "seis"
       <<115, 105, 101, 116, 101>>, <<111, 99, 104, 111>>, <<110, 117, 101, 118, 101>>, <<100, 105, 101, 122>>, <<111, 110, 99, 101>>, <<100, 111, 99, 101>>, <<116, 114, 101, 99, 101>>,   \* "siete", "ocho", "nueve", "diez", "once", "doce", "trece"
       <<99, 97, 116, 111, 114, 99, 101>>, <<113, 117, 105, 110, 99, 101>>, <<100, 105, 101, 99, 105, 115, 233, 105, 115>>, <<100, 105, 101, 99, 105, 115, 105, 101, 116, 101>>, <<100, 105, 101, 99, 105, 111, 99, 104, 111>>,   \* "catorce", "quince", "dieciséis", "diecisiete", "dieciocho"
       <<100, 105, 101, 99, 105, 110, 117, 101, 118, 101>>, <<118, 101, 105, 110, 116, 101>>, <<118, 101, 105, 110, 116, 105, 117, 110, 111>>, <<118, 101, 105, 110, 116, 105, 100, 243, 115>>, <<118, 101, 105, 110, 116, 105, 116, 114, 233, 115>>,   \* "diecinueve", "veinte", "veintiuno", "veintidós", "veintitrés"
       <<118, 101, 105, 110, 116, 105, 99, 117, 97, 116, 114, 111>>, <<118, 101, 105, 110, 116, 105, 99, 105, 110, 99, 111>>, <<118, 101, 105, 110, 116, 105, 115, 233, 105, 115>>, <<118, 101, 105, 110, 116, 105, 115, 105, 101, 116, 101>>,   \* "veinticuatro", "veinticinco", "veintiséis", "veintisiete"
       <<118, 101, 105, 110, 116, 105, 111, 99, 104, 111>>, <<118, 101, 105, 110, 116, 105, 110, 117, 101, 118, 101>> >>   \* "veintiocho", "veintinueve"

TensWords ==
    << <<100, 105, 101, 122>>, <<118, 101, 105, 110, 116, 101>>, <<116, 114, 101, 105, 110, 116, 97>>, <<99, 117, 97, 114, 101, 110, 116, 97>>, <<99, 105, 110, 99, 117, 101, 110, 116, 97>>,   \* "diez", "veinte", "treinta", "cuarenta", "cincuenta"
       <<115, 101, 115, 101, 110, 116, 97>>, <<115, 101, 116, 101, 110, 116, 97>>, <<111, 99, 104, 101, 110, 116, 97>>, <<110, 111, 118, 101, 110, 116, 97>> >>   \* "sesenta", "setenta", "ochenta", "noventa"

HundredsWords ==
    << <<99, 105, 101, 110, 116, 111>>, <<100, 111, 115, 99, 105, 101, 110, 116, 111, 115>>, <<116, 114, 101, 115, 99, 105, 101, 110, 116, 111, 115>>, <<99, 117, 97, 116, 114, 111, 99, 105, 101, 110, 116, 111, 115>>,   \* "ciento", "doscientos", "trescientos", "cuatrocientos"
       <<113, 117, 105, 110, 105, 101, 110, 116, 111, 115>>, <<115, 101, 105, 115, 99, 105, 101, 110, 116, 111, 115>>, <<115, 101, 116, 101, 99, 105, 101, 110, 116, 111, 115>>, <<111, 99, 104, 111, 99, 105, 101, 110, 116, 111, 115>>,   \* "quinientos", "seiscientos", "setecientos", "ochocientos"
       <<110, 111, 118, 101, 99, 105, 101, 110, 116, 111, 115>> >>   \* "novecientos"

Below100(n) ==
    IF n < 30 THEN LowNumwords[n + 1]
    ELSE IF n % 10 = 0 THEN TensWords[n \div 10]
    ELSE TensWords[n \div 10] \o <<32, 121, 32>> \o LowNumwords[(n % 10) + 1]   \* " y "

num2words(n) ==
    IF n < 100 THEN Below100(n)
    ELSE IF n = 100 THEN <<99, 105, 101, 110>>   \* "cien"
    ELSE IF n % 100 = 0 THEN HundredsWords[n \div 100]
    ELSE HundredsWords[n \div 100] \o <<32>> \o Below100(n % 100)   \* " "

\* int(number_str) for a run of decimal digits
RECURSIVE int(_)
int(ds) == IF ds = <<>> THEN 0 ELSE 10 * int(SubSeq(ds, 1, Len(ds) - 1)) + DigitValue(ds[Len(ds)])

\* what int() skips around a numeral: the blanks but U+001C..U+001F
IntSpaces == Spaces \ (28..31)

\* s without the characters of `blanks` at its ends
RECURSIVE StripChars(_, _)
StripChars(s, blanks) ==
    IF s = <<>> THEN s
    ELSE IF s[1] \in blanks THEN StripChars(Tail(s), blanks)
    ELSE IF s[Len(s)] \in blanks THEN StripChars(SubSeq(s, 1, Len(s) - 1), blanks)
    ELSE s

\* decimal digits, with single underscores between digits
IsIntBody(s) ==
    /\ s # <<>>
    /\ \A i \in DOMAIN s :
          \/ IsDigit(s[i])
          \/ /\ s[i] = 95   \* '_'
             /\ i > 1 /\ i < Len(s)
             /\ IsDigit(s[i - 1]) /\ IsDigit(s[i + 1])

\* int(s) for a str: blanks around, an optional sign, digits; ok is false
\* when int raises ValueError
int_of_str(s) ==
    LET t == StripChars(s, IntSpaces)
        signed == t # <<>> /\ t[1] \in {43, 45}   \* '+', '-'
        body == IF signed THEN Tail(t) ELSE t
        magnitude == int(SelectSeq(body, IsDigit))
    IN  IF IsIntBody(body)
        THEN [ok |-> TRUE, val |-> IF signed /\ t[1] = 45 THEN 0 - magnitude ELSE magnitude]   \* '-'
        ELSE [ok |-> FALSE, exc |-> "ValueError"]

\* str(n) for an int
RECURSIVE str_of_nat(_)
str_of_nat(n) == IF n < 10 THEN <<48 + n>> ELSE str_of_nat(n \div 10) \o <<48 + (n % 10)>>   \* '0', '0'

str_of_int(n) == IF n < 0 THEN <<45>> \o str_of_nat(0 - n) ELSE str_of_nat(n)   \* '-'

(***************************************************************************)
(* The passes of TextNormalizer.normalize, each as the function it         *)
(* computes.  re.sub scans left to right and never rescans what it wrote.  *)
(***************************************************************************)

\* text.replace('.', ' ').replace(',', ' ')
safe_punctuation(s) == [i \in DOMAIN s |-> IF s[i] \in {46, 44} THEN 32 ELSE s[i]]   \* '.', ',', ' '

\* re.sub(r'([a-zA-Záéíóúñ])(\d)', r'\1 \2', text)
RECURSIVE SeparateLetterDigit(_, _)
SeparateLetterDigit(s, i) ==
    IF i > Len(s) THEN <<>>
    ELSE IF i < Len(s) /\ IsLetter(s[i]) /\ IsDigit(s[i + 1])
         THEN <<s[i], 32, s[i + 1]>> \o SeparateLetterDigit(s, i + 2)   \* ' '
         ELSE <<s[i]>> \o SeparateLetterDigit(s, i + 1)

\* re.sub(r'(\d)([a-zA-Záéíóúñ])', r'\1 \2', text)
RECURSIVE SeparateDigitLetter(_, _)
SeparateDigitLetter(s, i) ==
    IF i > Len(s) THEN <<>>
    ELSE IF i < Len(s) /\ IsDigit(s[i]) /\ IsLetter(s[i + 1])
         THEN <<s[i], 32, s[i + 1]>> \o SeparateDigitLetter(s, i + 2)   \* ' '
         ELSE <<s[i]>> \o SeparateDigitLetter(s, i + 1)

separate_letters_and_numbers(s) == SeparateDigitLetter(SeparateLetterDigit(s, 1), 1)

\* the pattern r'\b' + re.escape(key) + r'\b' matches at position i of s
MatchWordAt(s, i, key, ignorecase) ==
    /\ i + Len(key) - 1 <= Len(s)
    /\ Boundary(s, i)
    /\ \A j \in DOMAIN key :
          IF ignorecase THEN IgnoreCaseMatch(s[i + j - 1], key[j])
          ELSE s[i + j - 1] = key[j]
    /\ Boundary(s, i + Len(key))

\* re.sub(r'\b' + re.escape(key) + r'\b', repl, s[, flags=re.IGNORECASE])
RECURSIVE SubWord(_, _, _, _, _)
SubWord(s, i, key, repl, ignorecase) ==
    IF i > Len(s) THEN <<>>
    ELSE IF MatchWordAt(s, i, key, ignorecase)
         THEN repl \o SubWord(s, i + Len(key), key, repl, ignorecase)
         ELSE <<s[i]>> \o SubWord(s, i + 1, key, repl, ignorecase)

\* the dict of _get_default_replacements, in insertion order
DefaultReplacements ==
    << << <<49, 32, 116, 98>>, <<117, 110, 32, 116, 101, 114, 97, 98, 121, 116, 101>> >>,   \* "1 tb", "un terabyte"
       << <<116, 98>>, <<116, 101, 114, 97, 98, 121, 116, 101>> >>,   \* "tb", "terabyte"
       << <<103, 98>>, <<103, 105, 103, 97, 98, 121, 116, 101>> >>,   \* "gb", "gigabyte"
       << <<105, 32, 55>>, <<105, 32, 115, 105, 101, 116, 101>> >>,   \* "i 7", "i siete"
       << <<105, 32, 53>>, <<105, 32, 99, 105, 110, 99, 111>> >>,   \* "i 5", "i cinco"
       << <<105, 32, 51>>, <<105, 32, 116, 114, 101, 115>> >>,   \* "i 3", "i tres"
       << <<97, 32, 52>>, <<97, 32, 99, 117, 97, 116, 114, 111>> >>,   \* "a 4", "a cuatro"
       << <<97, 52>>, <<97, 32, 99, 117, 97, 116, 114, 111>> >>,   \* "a4", "a cuatro"
       << <<120, 103>>, <<101, 113, 117, 105, 115, 32, 103, 101>> >>,   \* "xg", "equis ge"
       << <<102, 32, 97>>, <<101, 102, 101, 32, 97>> >>,   \* "f a", "efe a"
       << <<102, 97>>, <<101, 102, 101, 32, 97>> >>,   \* "fa", "efe a"
       << <<99, 111, 109, 112, 117, 32, 102, 97, 99, 105, 108>>, <<99, 111, 109, 112, 117, 102, 97, 99, 105, 108>> >>,   \* "compu facil", "compufacil"
       << <<99, 111, 109, 112, 117, 32, 102, 225, 99, 105, 108>>, <<99, 111, 109, 112, 117, 102, 97, 99, 105, 108>> >>,   \* "compu fácil", "compufacil"
       << <<99, 111, 109, 112, 117, 102, 225, 99, 105, 108>>, <<99, 111, 109, 112, 117, 102, 97, 99, 105, 108>> >>,   \* "compufácil", "compufacil"
       << <<116, 101, 99, 110, 111, 32, 115, 105, 115>>, <<116, 101, 99, 110, 111, 115, 121, 115>> >>,   \* "tecno sis", "tecnosys"
       << <<116, 101, 99, 104, 110, 111, 32, 115, 121, 115>>, <<116, 101, 99, 110, 111, 115, 121, 115>> >>,   \* "techno sys", "tecnosys"
       << <<116, 101, 99, 110, 111, 32, 115, 121, 115>>, <<116, 101, 99, 110, 111, 115, 121, 115>> >>,   \* "tecno sys", "tecnosys"
       << <<116, 101, 99, 110, 111, 115, 105, 115>>, <<116, 101, 99, 110, 111, 115, 121, 115>> >>,   \* "tecnosis", "tecnosys"
       << <<97, 110, 100, 105, 110, 97, 32, 99, 111, 114, 112>>, <<97, 110, 100, 105, 110, 97, 99, 111, 114, 112>> >>,   \* "andina corp", "andinacorp"
       << <<97, 110, 100, 105, 110, 97, 32, 99, 111, 114, 112, 46>>, <<97, 110, 100, 105, 110, 97, 99, 111, 114, 112>> >>,   \* "andina corp.", "andinacorp"
       << <<100, 117, 114, 97, 32, 100, 105, 115, 99, 111>>, <<100, 117, 114, 97, 100, 105, 115, 99, 111>> >>,   \* "dura disco", "duradisco"
       << <<100, 117, 108, 99, 101, 115, 105, 100, 101, 97, 115>>, <<100, 117, 108, 99, 101, 115, 32, 105, 100, 101, 97, 115>> >>,   \* "dulcesideas", "dulces ideas"
       << <<112, 97, 112, 101, 108, 109, 117, 110, 100, 111>>, <<112, 97, 112, 101, 108, 32, 109, 117, 110, 100, 111>> >> >>   \* "papelmundo", "papel mundo"

\* for original, replacement in table.items(): text = re.sub(...)
RECURSIVE SubAll(_, _, _)
SubAll(s, table, ignorecase) ==
    IF table = <<>> THEN s
    ELSE SubAll(SubWord(s, 1, table[1][1], table[1][2], ignorecase), Tail(table), ignorecase)

apply_custom_replacements(s) == SubAll(s, DefaultReplacements, TRUE)

\* [\s-]
IsSeparator(c) == IsSpace(c) \/ c = 45   \* '-'

\* the last position of the maximal run of characters satisfying the class
\* that starts at position i
RECURSIVE SeparatorRunEnd(_, _)
SeparatorRunEnd(s, i) ==
    IF i < Len(s) /\ IsSeparator(s[i + 1]) THEN SeparatorRunEnd(s, i + 1) ELSE i

RECURSIVE DigitRunEnd(_, _)
DigitRunEnd(s, i) ==
    IF i < Len(s) /\ IsDigit(s[i + 1]) THEN DigitRunEnd(s, i + 1) ELSE i

\* re.sub(r'(?<=\d)[\s-]+(?=\d)', '', text)
RECURSIVE UnifySingleFrom(_, _)
UnifySingleFrom(s, i) ==
    IF i > Len(s) THEN <<>>
    ELSE IF /\ IsSeparator(s[i])
            /\ i > 1 /\ IsDigit(s[i - 1])
            /\ i < Len(s) /\ IsDigit(s[i + 1])
         THEN UnifySingleFrom(s, i + 1)
         ELSE <<s[i]>> \o UnifySingleFrom(s, i + 1)

UnifySingleSeparator(s) == UnifySingleFrom(s, 1)

RECURSIVE UnifyFrom(_, _)
UnifyFrom(s, i) ==
    IF i > Len(s) THEN <<>>
    ELSE IF /\ IsSeparator(s[i])
            /\ i > 1 /\ IsDigit(s[i - 1])
            /\ SeparatorRunEnd(s, i) < Len(s)
            /\ IsDigit(s[SeparatorRunEnd(s, i) + 1])
         THEN UnifyFrom(s, SeparatorRunEnd(s, i) + 1)
         ELSE <<s[i]>> \o UnifyFrom(s, i + 1)

unify_spaced_digits(s) == UnifyFrom(s, 1)

\* r'\b\d+\b' matches at position i: a maximal run of digits with a word
\* boundary on each side
NumberMatchAt(s, i) ==
    /\ IsDigit(s[i])
    /\ Boundary(s, i)
    /\ Boundary(s, DigitRunEnd(s, i) + 1)

NumberMatches(s) == {i \in DOMAIN s : NumberMatchAt(s, i)}

IsCodeByLengthOnly(number_str) == Len(number_str) >= 4

\* is_code = (number_str.startswith('0') and len(number_str) > 1) or len(number_str) >= 4
is_code(number_str) ==
    (number_str[1] = 48 /\ Len(number_str) > 1) \/ Len(number_str) >= 4   \* '0'

\* ' '.join(num2words(int(digit), lang='es') for digit in number_str)
digit_by_digit(number_str) ==
    Join([k \in DOMAIN number_str |-> num2words(DigitValue(number_str[k]))], <<32>>)   \* " "

\* convert_number(match); `fails` is true when num2words raises on this match
convert_number(number_str, fails) ==
    IF is_code(number_str) THEN digit_by_digit(number_str)
    ELSE IF fails THEN number_str
    ELSE num2words(int(number_str))

\* re.sub(r'\b\d+\b', convert_number, text); `failing` are the starts of the
\* matches on which num2words raises
RECURSIVE NumbersFrom(_, _, _)
NumbersFrom(s, i, failing) ==
    IF i > Len(s) THEN <<>>
    ELSE IF NumberMatchAt(s, i)
         THEN convert_number(SubSeq(s, i, DigitRunEnd(s, i)), i \in failing)
                 \o NumbersFrom(s, DigitRunEnd(s, i) + 1, failing)
         ELSE <<s[i]>> \o NumbersFrom(s, i + 1, failing)

numbers_to_words(s, failing) == NumbersFrom(s, 1, failing)

\* the is_code branch calls num2words outside the try block (line 132):
\* an exception there leaves _numbers_to_words and normalize
numbers_to_words_raises(s, failing) ==
    \E i \in NumberMatches(s) :
        i \in failing /\ is_code(SubSeq(s, i, DigitRunEnd(s, i)))

\* re.sub(r'[^\w\s]', ' ', text), then text.replace('_', ' ')
remove_punctuation(s) ==
    [i \in DOMAIN s |->
        IF (~IsWordChar(s[i]) /\ ~IsSpace(s[i])) \/ s[i] = 95 THEN 32 ELSE s[i]]   \* '_', ' '

\* the list `replacements` of _spanish_post_processing
PostProcessingRules ==
    << << <<117, 110, 111, 32, 116, 101, 114, 97, 98, 121, 116, 101>>, <<117, 110, 32, 116, 101, 114, 97, 98, 121, 116, 101>> >>,   \* "uno terabyte", "un terabyte"
       << <<117, 110, 111, 32, 103, 105, 103, 97, 98, 121, 116, 101>>, <<117, 110, 32, 103, 105, 103, 97, 98, 121, 116, 101>> >>,   \* "uno gigabyte", "un gigabyte"
       << <<117, 110, 111, 32, 109, 111, 110, 105, 116, 111, 114>>, <<117, 110, 32, 109, 111, 110, 105, 116, 111, 114>> >>,   \* "uno monitor", "un monitor"
       << <<117, 110, 111, 32, 115, 111, 112, 111, 114, 116, 101>>, <<117, 110, 32, 115, 111, 112, 111, 114, 116, 101>> >>,   \* "uno soporte", "un soporte"
       << <<117, 110, 111, 32, 101, 115, 99, 114, 105, 116, 111, 114, 105, 111>>, <<117, 110, 32, 101, 115, 99, 114, 105, 116, 111, 114, 105, 111>> >>,   \* "uno escritorio", "un escritorio"
       << <<117, 110, 111, 32, 112, 101, 100, 105, 100, 111>>, <<117, 110, 32, 112, 101, 100, 105, 100, 111>> >> >>   \* "uno pedido", "un pedido"

spanish_post_processing(s) == SubAll(s, PostProcessingRules, FALSE)

RECURSIVE SpaceRunEnd(_, _)
SpaceRunEnd(s, i) ==
    IF i < Len(s) /\ IsSpace(s[i + 1]) THEN SpaceRunEnd(s, i + 1) ELSE i

\* re.sub(r'\s+', ' ', text)
RECURSIVE CollapseFrom(_, _)
CollapseFrom(s, i) ==
    IF i > Len(s) THEN <<>>
    ELSE IF IsSpace(s[i]) THEN <<32>> \o CollapseFrom(s, SpaceRunEnd(s, i) + 1)   \* ' '
    ELSE <<s[i]>> \o CollapseFrom(s, i + 1)

\* str.strip()
strip(s) == StripChars(s, Spaces)

clean_whitespace(s) == strip(CollapseFrom(s, 1))

\* normalize(text) with a converter that never fails: the nine passes in order
normalize(s) ==
    IF s = <<>> THEN <<>>
    ELSE clean_whitespace(spanish_post_processing(remove_punctuation(
            numbers_to_words(unify_spaced_digits(apply_custom_replacements(
                separate_letters_and_numbers(safe_punctuation(lower(s))))), {}))))

(***************************************************************************)
(* Inputs of normalize.                                                    *)
(***************************************************************************)
Strings(alphabet, n) == UNION {[1..k -> alphabet] : k \in 0..n}

\* arbitrary short transcripts: a letter in both cases, digits, the
\* separators of digit unification and punctuation
Alphabet == {70, 97, 48, 49, 52, 32, 45, 95, 46}   \* 'F', 'a', '0', '1', '4', ' ', '-', '_', '.'

\* pure digit runs, of ASCII and of Arabic-Indic digits (zero and three)
DigitAlphabet == {48, 50, 57, 1632, 1635}   \* '0', '2', '9', '<U+0660>', '<U+0663>'

DigitInputs == Strings(DigitAlphabet, MaxDigits) \ {<<>>}

\* digit groups joined by one separator: hyphens, spaces (a no-break space
\* too), both, or nothing
Groups == {<<56, 53>>, <<50, 48>>, <<50, 53>>, <<48, 57>>, <<53>>}   \* "85", "20", "25", "09", "5"

GroupSeparators == {<<45>>, <<32>>, <<32, 45, 32>>, <<160>>, <<>>}   \* "-", " ", " - ", "<U+00A0>"

GroupInputs ==
    {Join(gs, sep) : gs \in UNION {[1..k -> Groups] : k \in 1..MaxGroups},
                     sep \in GroupSeparators}

\* the test_cases of normalize.py's __main__ block, and transcripts that
\* use the replacement table and the 'uno' -> 'un' rules, and transcripts
\* with characters outside ASCII: a letter of \w that is no letter of
\* [a-zA-Záéíóúñ], a final capital sigma, the long s that re.IGNORECASE
\* takes for 's', the dotted capital I, and a superscript digit
TestInputs ==
    { <<56, 53, 45, 50, 48, 45, 50, 53>>, <<56, 53, 32, 50, 48, 32, 50, 53>>, <<82, 85, 67, 32, 48, 57, 32, 50, 50>>, <<70, 65, 45, 52, 48, 57, 53>>, <<53, 32, 109, 111, 110, 105, 116, 111, 114, 101, 115>>,   \* "85-20-25", "85 20 25", "RUC 09 22", "FA-4095", "5 monitores"
      <<49, 32, 84, 66>>, <<49, 32, 109, 111, 110, 105, 116, 111, 114>>, <<67, 111, 109, 112, 117, 32, 70, 225, 99, 105, 108, 32, 105, 55>>, <<117, 110, 111, 32, 32, 109, 111, 110, 105, 116, 111, 114>>, <<70, 46, 65, 46, 32, 49, 54>>,   \* "1 TB", "1 monitor", "Compu Fácil i7", "uno  monitor", "F.A. 16"
      <<80, 73, 78, 71, 220, 73, 78, 79, 32, 53>>,   \* "PINGÜINO 5"
      <<927, 916, 927, 931, 32, 49>>,   \* "<U+039F><U+0394><U+039F><U+03A3> 1"
      <<84, 69, 67, 78, 79, 383, 73, 83>>,   \* "TECNO<U+017F>IS"
      <<304, 55>>,   \* "<U+0130>7"
      <<53, 178, 32, 84, 66>> }   \* "5<U+00B2> TB"

Inputs == Strings(Alphabet, MaxLen) \cup DigitInputs \cup GroupInputs \cup TestInputs

(***************************************************************************)
(* normalize as a state machine: one action per pass (lines 63-100), and   *)
(* the caller that normalizes the result again.                            *)
(***************************************************************************)
NluIdle == [phase |-> "idle"]
WerIdle == [phase |-> "idle"]

InitNormalize(conv) ==
    /\ raw \in Inputs
    /\ text = raw
    /\ step = "start"
    /\ run = 1
    /\ first = <<>>
    /\ converter = conv
    /\ nlu = NluIdle
    /\ wer = WerIdle

Return(to, result) ==
    /\ text' = result
    /\ step' = to
    /\ UNCHANGED <<raw, run, first, converter, nlu, wer>>

\* if not text or not isinstance(text, str): return ""
EarlyReturn ==
    /\ step = "start"
    /\ text = <<>>
    /\ Return("done", <<>>)

\* 1. text = text.lower()
Lowercase ==
    /\ step = "start"
    /\ text # <<>>
    /\ Return("punct", lower(text))

\* 2. text = text.replace('.', ' ').replace(',', ' ')
SafePunctuation ==
    /\ step = "punct"
    /\ Return("separate", safe_punctuation(text))

\* 3. text = self._separate_letters_and_numbers(text)
SeparateLettersAndNumbers ==
    /\ step = "separate"
    /\ Return("replace", separate_letters_and_numbers(text))

\* 4. text = self._apply_custom_replacements(text)
ApplyCustomReplacements ==
    /\ step = "replace"
    /\ Return("unify", apply_custom_replacements(text))

\* 5. text = self._unify_spaced_digits(text)
UnifySpacedDigits ==
    /\ step = "unify"
    /\ Return("numbers", unify_spaced_digits(text))

\* which calls of num2words raise during this pass: none when the
\* converter is total, any subset of the matches when it is a black box
FailureChoices(s) == IF converter = "partial" THEN SUBSET NumberMatches(s) ELSE {{}}

\* 6. text = self._numbers_to_words(text)
NumbersToWords ==
    /\ step = "numbers"
    /\ \E failing \in FailureChoices(text) :
          IF numbers_to_words_raises(text, failing)
          THEN Return("raised", text)
          ELSE Return("remove", numbers_to_words(text, failing))

\* 7. text = self._remove_punctuation(text)
RemovePunctuation ==
    /\ step = "remove"
    /\ Return("postproc", remove_punctuation(text))

\* 8. text = self._spanish_post_processing(text)
SpanishPostProcessing ==
    /\ step = "postproc"
    /\ Return("clean", spanish_post_processing(text))

\* 9. text = self._clean_whitespace(text); return text
CleanWhitespace ==
    /\ step = "clean"
    /\ Return("done", clean_whitespace(text))

\* normalize(normalize(x)): the result of the first call is the argument
\* of the second
NormalizeAgain ==
    /\ step = "done"
    /\ run = 1
    /\ first' = text
    /\ run' = 2
    /\ step' = "start"
    /\ UNCHANGED <<raw, text, converter, nlu, wer>>

Init == InitNormalize("total")

Next ==
    \/ EarlyReturn
    \/ Lowercase
    \/ SafePunctuation
    \/ SeparateLettersAndNumbers
    \/ ApplyCustomReplacements
    \/ UnifySpacedDigits
    \/ NumbersToWords
    \/ RemovePunctuation
    \/ SpanishPostProcessing
    \/ CleanWhitespace
    \/ NormalizeAgain

Spec == Init /\ [][Next]_vars

InitConv == InitNormalize("partial")

SpecConv == InitConv /\ [][Next]_vars

(***************************************************************************)
(* NLUEvaluator (tools/nlu_utils.py).                                      *)
(***************************************************************************)

\* one entry of the RULES dict
Rule(intent, keywords, slots) == [intent |-> intent, keywords |-> keywords, slots |-> slots]

\* NLUEvaluator.RULES: key i is RULES[i]; a slots dict is the sequence of
\* its (key, value) items
RULES ==
    << Rule("crear_cotizacion", << <<99, 111, 116, 105, 122, 97, 99, 105, 243, 110>>, <<99, 111, 116, 105, 122, 97, 99, 105, 111, 110>> >>,   \* "cotización", "cotizacion"
            << <<"cliente", "compufacil">>, <<"cantidad", "cinco">> >>),
       Rule("crear_presupuesto", << <<112, 114, 101, 115, 117, 112, 117, 101, 115, 116, 111>> >>,   \* "presupuesto"
            << <<"cliente", "tecnosys">>, <<"cantidad", "diez">> >>),
       Rule("crear_oferta", << <<111, 102, 101, 114, 116, 97>>, <<99, 111, 109, 101, 114, 99, 105, 97, 108>> >>,   \* "oferta", "comercial"
            << <<"contacto", "carla">>, <<"modelo", "equis ge">> >>),
       Rule("crear_proforma", << <<112, 114, 111, 102, 111, 114, 109, 97>> >>,   \* "proforma"
            << <<"cliente", "andina">>, <<"modelo", "core i siete">>, <<"cantidad", "dos">> >>),
       Rule("buscar_factura", << <<98, 117, 115, 99, 97>>, <<102, 97, 99, 116, 117, 114, 97>> >>,   \* "busca", "factura"
            << <<"cliente", "velasco">> >>),
       Rule("generar_factura", << <<103, 101, 110, 101, 114, 97>>, <<102, 97, 99, 116, 117, 114, 97>> >>,   \* "genera", "factura"
            << <<"serie", "ocho cinco dos cero dos cinco">> >>),
       Rule("verificar_pago", << <<118, 101, 114, 105, 102, 105, 99, 97>>, <<112, 97, 103, 97, 100, 97>> >>,   \* "verifica", "pagada"
            << <<"factura", "efe a cuatro cero nueve cinco">> >>),
       Rule("consultar_inventario", << <<99, 117, 97, 110, 116, 97, 115>>, <<115, 105, 108, 108, 97, 115>> >>,   \* "cuantas", "sillas"
            << <<"ubicacion", "guayaquil">> >>),
       Rule("registrar_ingreso", << <<105, 110, 103, 114, 101, 115, 111>>, <<114, 101, 103, 105, 115, 116, 114, 97>> >>,   \* "ingreso", "registra"
            << <<"cantidad", "cincuenta">>, <<"item", "resmas">> >>),
       Rule("consultar_stock", << <<115, 116, 111, 99, 107>>, <<100, 97, 109, 101>> >>,   \* "stock", "dame"
            << <<"capacidad", "terabyte">>, <<"marca", "dura disco">> >>),
       Rule("ver_historial", << <<104, 105, 115, 116, 111, 114, 105, 97, 108>>, <<99, 111, 109, 112, 114, 97, 115>> >>,   \* "historial", "compras"
            << <<"cliente", "terroso">>, <<"tiempo", "seis">> >>),
       Rule("crear_cliente", << <<99, 114, 101, 97>>, <<99, 108, 105, 101, 110, 116, 101>> >>,   \* "crea", "cliente"
            << <<"ruc", "cero nueve dos dos">> >>),
       Rule("info_contacto", << <<110, 117, 109, 101, 114, 111>>, <<116, 101, 108, 101, 102, 111, 110, 111>>, <<110, 250, 109, 101, 114, 111>>, <<116, 101, 108, 233, 102, 111, 110, 111>> >>,   \* "numero", "telefono", "número", "teléfono"
            << <<"empresa", "dulces ideas">> >>),
       Rule("reporte_ventas", << <<114, 101, 112, 111, 114, 116, 101>>, <<118, 101, 110, 116, 97, 115>> >>,   \* "reporte", "ventas"
            << <<"vendedor", "daniel">>, <<"mes", "agosto">> >>),
       Rule("reporte_top_producto", << <<112, 114, 111, 100, 117, 99, 116, 111>>, <<118, 101, 110, 100, 105, 100, 111>> >>,   \* "producto", "vendido"
            << <<"tiempo", "trimestre">> >> ) >>

\* a cell of the DataFrame: a str, an int, None, NaN, or no such column
StrCell(s) == [kind |-> "str", s |-> s]
IntCell(n) == [kind |-> "int", n |-> n]
NoneCell == [kind |-> "none"]
NaNCell == [kind |-> "nan"]
AbsentCell == [kind |-> "absent"]

\* str(value) for a str, an int, None and NaN
str_of_cell(cell) ==
    CASE cell.kind = "str" -> cell.s
      [] cell.kind = "int" -> str_of_int(cell.n)
      [] cell.kind = "none" -> <<78, 111, 110, 101>>   \* "None"
      [] OTHER -> <<110, 97, 110>>   \* "nan"

\* pd.notna(value)
notna(cell) == cell.kind \in {"str", "int"}

\* int(row['audio']): the value, or the exception it raises.  A str is
\* parsed by int; float('nan') raises ValueError, None raises TypeError,
\* and a missing column raises KeyError.
int_of_cell(cell) ==
    CASE cell.kind = "int" -> [ok |-> TRUE, val |-> cell.n]
      [] cell.kind = "str" -> int_of_str(cell.s)
      [] cell.kind = "nan" -> [ok |-> FALSE, exc |-> "ValueError"]
      [] cell.kind = "none" -> [ok |-> FALSE, exc |-> "TypeError"]
      [] OTHER -> [ok |-> FALSE, exc |-> "KeyError"]

\* str(row['text_normalized']).lower() if pd.notna(row['text_normalized']) else ""
text_of_cell(cell) == IF notna(cell) THEN lower(str_of_cell(cell)) ELSE <<>>

\* keyword in text
Contains(keyword, s) ==
    \E i \in 0..(Len(s) - Len(keyword)) : SubSeq(s, i + 1, i + Len(keyword)) = keyword

\* the result both early returns of _evaluate_row build
SentinelResult ==
    [ intent_expected |-> "unknown", intent_predicted |-> "error",
      intent_success |-> FALSE, slots_found_count |-> 0, slots_total_count |-> 0,
      slots_success |-> FALSE, nlu_success |-> FALSE ]

\* intent_match = any(keyword in text for keyword in keywords)
MatchAllKeywords(keywords, s) == \A k \in DOMAIN keywords : Contains(keywords[k], s)

intent_match(keywords, s) == \E k \in DOMAIN keywords : Contains(keywords[k], s)

\* if score > 85: slots_found += 1
SlotHitAt80(score) == score >= 80

slot_hit(score) == score > 85

\* the loop over required_slots.items(); scores[k] is what
\* fuzz.partial_ratio(slot_value, text) returns for the k-th slot
slots_found(scores) == Cardinality({k \in DOMAIN scores : slot_hit(scores[k])})

\* slots_success = (slots_found == slots_total)
slots_success(found, total) == found = total

NluSuccessEither(intent_ok, slots_ok) == intent_ok \/ slots_ok

\* nlu_success = intent_success and slots_success
nlu_success(intent_ok, slots_ok) == intent_ok /\ slots_ok

\* lines 144-182 of _evaluate_row, for a resolved rule
evaluate_rule(rule, s, scores) ==
    LET intent_expected == rule.intent
        intent_predicted == IF intent_match(rule.keywords, s) THEN intent_expected ELSE "no_match"
        intent_success == (intent_predicted = intent_expected)
        found == slots_found(scores)
        total == Len(rule.slots)
    IN  [ intent_expected |-> intent_expected,
          intent_predicted |-> intent_predicted,
          intent_success |-> intent_success,
          slots_found_count |-> found,
          slots_total_count |-> total,
          slots_success |-> slots_success(found, total),
          nlu_success |-> nlu_success(intent_success, slots_success(found, total)) ]

\* except (ValueError, KeyError)
caught(exc) == exc \in {"ValueError", "KeyError"}

\* _evaluate_row(row): the Series it returns, or the exception that leaves
\* it; row['text_normalized'] on line 145 is outside the try block
evaluate_row(row, scores) ==
    LET id == int_of_cell(row.audio) IN
    IF ~id.ok
    THEN IF caught(id.exc)
         THEN [raised |-> FALSE, result |-> SentinelResult]
         ELSE [raised |-> TRUE, exc |-> id.exc]
    ELSE IF id.val \notin DOMAIN RULES
         THEN [raised |-> FALSE, result |-> SentinelResult]
    ELSE IF row.text_normalized.kind = "absent"
         THEN [raised |-> TRUE, exc |-> "KeyError"]
         ELSE [raised |-> FALSE,
               result |-> evaluate_rule(RULES[id.val], text_of_cell(row.text_normalized), scores)]

(***************************************************************************)
(* Inputs of evaluate_dataset.                                             *)
(***************************************************************************)
\* the columns a frame may have
ColumnSets == {{"audio", "text_normalized"}, {"audio"}, {"text_normalized"}}

\* scenario ids: every key of RULES, an integer on each side of the keys,
\* None, NaN, and as str numerals (plain, with blanks around, with an
\* underscore, signed) and non-numerals
AudioCells ==
    {IntCell(n) : n \in 0..(Len(RULES) + 1)}
        \cup {StrCell(<<53>>), StrCell(<<49, 50>>), StrCell(<<32, 55, 32>>), StrCell(<<49, 95, 50>>)}   \* "5", "12", " 7 ", "1_2"
        \cup {StrCell(<<45, 51>>), StrCell(<<120>>), StrCell(<<>>)}   \* "-3", "x"
        \cup {NoneCell, NaNCell}

\* transcripts: the four of the __main__ block, some that hold one keyword
\* of a two-keyword rule, none, or upper case, and a missing transcript
TextCells ==
    { StrCell(<<103, 101, 110, 101, 114, 97, 32, 117, 110, 97, 32, 99, 111, 116, 105, 122, 97, 99, 105, 243, 110, 32, 112, 97, 114, 97, 32, 101, 108, 32, 99, 108, 105, 101, 110, 116, 101, 32, 99, 111, 109, 112, 117, 102, 97, 99, 105, 108, 32, 99, 97, 110, 116, 105, 100, 97, 100, 32, 99, 105, 110, 99, 111>>),   \* "genera una cotización para el cliente compufacil cantidad cinco"
      StrCell(<<112, 114, 101, 115, 117, 112, 117, 101, 115, 116, 111, 32, 112, 97, 114, 97, 32, 116, 101, 99, 110, 111, 115, 121, 115, 32, 99, 97, 110, 116, 105, 100, 97, 100, 32, 100, 105, 101, 122>>),   \* "presupuesto para tecnosys cantidad diez"
      StrCell(<<111, 102, 101, 114, 116, 97, 32, 99, 111, 109, 101, 114, 99, 105, 97, 108, 32, 112, 97, 114, 97, 32, 99, 97, 114, 108, 97, 32, 109, 111, 100, 101, 108, 111, 32, 101, 113, 117, 105, 115, 32, 103, 101>>),   \* "oferta comercial para carla modelo equis ge"
      StrCell(<<99, 111, 116, 105, 122, 97, 99, 105, 111, 110, 32, 112, 97, 114, 97, 32, 99, 108, 105, 101, 110, 116, 101, 32, 99, 111, 109, 112, 117, 102, 97, 99, 105, 108>>),   \* "cotizacion para cliente compufacil"
      StrCell(<<66, 117, 115, 99, 97, 32, 108, 97, 32, 70, 97, 99, 116, 117, 114, 97, 32, 100, 101, 32, 86, 101, 108, 97, 115, 99, 111>>),   \* "Busca la Factura de Velasco"
      StrCell(<<102, 97, 99, 116, 117, 114, 97>>),   \* "factura"
      StrCell(<<104, 111, 108, 97>>),   \* "hola"
      NaNCell }

\* what the fuzzy matcher may return: the ends of 0..100 and the values
\* around the thresholds 80 and 85
ScoreSamples == {0, 79, 80, 85, 86, 100}

\* the scores the matcher is asked for while a row is evaluated: one per
\* slot of the resolved rule, none when the row is not resolved
ScoreChoices(row) ==
    LET id == int_of_cell(row.audio) IN
    IF id.ok /\ id.val \in DOMAIN RULES /\ row.text_normalized.kind # "absent"
    THEN [1..Len(RULES[id.val].slots) -> ScoreSamples]
    ELSE {<<>>}

(***************************************************************************)
(* evaluate_dataset as a state machine: result_df.apply calls              *)
(* _evaluate_row on the rows in order and collects the Series each call    *)
(* returns.  The state holds the columns and the number of rows of the     *)
(* frame, how many rows were evaluated and how many results were           *)
(* collected, and, between a call and the collection of its result, the    *)
(* row, the scores the matcher gave and the result.                        *)
(***************************************************************************)
NoRow == [audio |-> AbsentCell, text_normalized |-> NaNCell]

NluState(phase, columns, size, evaluated, collected, row, scores, result) ==
    [ phase |-> phase, columns |-> columns, size |-> size, evaluated |-> evaluated,
      collected |-> collected, row |-> row, scores |-> scores, result |-> result ]

\* the values row[column] may have in a frame with these columns
CellsOf(columns, column, cells) == IF column \in columns THEN cells ELSE {AbsentCell}

InitNLU ==
    /\ \E columns \in ColumnSets, size \in 0..MaxRecords :
          nlu = NluState("apply", columns, size, 0, 0, NoRow, <<>>, SentinelResult)
    /\ wer = WerIdle
    /\ raw = <<>> /\ text = <<>> /\ step = "idle" /\ run = 1 /\ first = <<>>
    /\ converter = "total"

\* one call of self._evaluate_row by result_df.apply(..., axis=1): it
\* returns a Series, or an exception leaves apply and evaluate_dataset
EvaluateRow ==
    /\ nlu.phase = "apply"
    /\ nlu.evaluated < nlu.size
    /\ \E audio \in CellsOf(nlu.columns, "audio", AudioCells),
          transcript \in CellsOf(nlu.columns, "text_normalized", TextCells) :
          LET row == [audio |-> audio, text_normalized |-> transcript] IN
          \E scores \in ScoreChoices(row) :
              LET out == evaluate_row(row, scores) IN
              nlu' = IF out.raised
                     THEN NluState("raised", nlu.columns, nlu.size, nlu.evaluated + 1, nlu.collected,
                                   row, scores, SentinelResult)
                     ELSE NluState("returned", nlu.columns, nlu.size, nlu.evaluated + 1, nlu.collected,
                                   row, scores, out.result)
    /\ UNCHANGED <<normVars, wer>>

\* apply keeps the returned Series as the row of evaluation_results
CollectResult ==
    /\ nlu.phase = "returned"
    /\ nlu' = NluState("apply", nlu.columns, nlu.size, nlu.evaluated, nlu.collected + 1,
                       NoRow, <<>>, SentinelResult)
    /\ UNCHANGED <<normVars, wer>>

\* result_df = pd.concat([result_df, evaluation_results], axis=1); return
ReturnDataset ==
    /\ nlu.phase = "apply"
    /\ nlu.evaluated = nlu.size
    /\ nlu' = [nlu EXCEPT !.phase = "done"]
    /\ UNCHANGED <<normVars, wer>>

NextNLU == EvaluateRow \/ CollectResult \/ ReturnDataset

SpecNLU == InitNLU /\ [][NextNLU]_vars

(***************************************************************************)
(* calculate_wer_from_dataframe (tools/wer_utils.py).                      *)
(***************************************************************************)

\* an entry of the ground-truth JSON list: {"id": ..., "text": ...}; id
\* and text are a StrCell, an IntCell (a JSON number), NoneCell (JSON null)
\* or AbsentCell (no such key)
GtItem(id, txt) == [id |-> id, text |-> txt]

InvalidOnlyWhenAbsent(item) == item.text.kind = "absent"

\* 'text' not in item or not str(item['text']).strip()
invalid_item(item) ==
    item.text.kind = "absent" \/ strip(str_of_cell(item.text)) = <<>>

\* the validation loop (lines 23-25) raises ValueError on the first such item
ground_truth_invalid(ground_truth_list) ==
    \E i \in DOMAIN ground_truth_list : invalid_item(ground_truth_list[i])

\* item['id'] on line 28 raises KeyError for an item without an id
ground_truth_map_raises(ground_truth_list) ==
    \E i \in DOMAIN ground_truth_list : ground_truth_list[i].id.kind = "absent"

\* ground_truth_map = {item['id']: item['text'] for item in ground_truth_list}:
\* a later item with the same id replaces an earlier one
ground_truth_map(ground_truth_list) ==
    [id \in {ground_truth_list[i].id : i \in DOMAIN ground_truth_list} |->
        ground_truth_list[
            CHOOSE i \in DOMAIN ground_truth_list :
                /\ ground_truth_list[i].id = id
                /\ \A j \in DOMAIN ground_truth_list :
                      ground_truth_list[j].id = id => j <= i ].text ]

\* get_reference(row): ground_truth_map.get(str(row['audio']), "")
get_reference(map, audio) ==
    IF StrCell(str_of_cell(audio)) \in DOMAIN map
    THEN map[StrCell(str_of_cell(audio))]
    ELSE StrCell(<<>>)

\* not reference: true of '', None and 0, false of every other str and
\* number, NaN included
reference_missing(reference) ==
    CASE reference.kind = "str" -> reference.s = <<>>
      [] reference.kind = "int" -> reference.n = 0
      [] reference.kind = "none" -> TRUE
      [] OTHER -> FALSE

\* str(row['text_normalized']) if pd.notna(row['text_normalized']) else ""
hypothesis_of(cell) == IF notna(cell) THEN str_of_cell(cell) ELSE <<>>

\* jiwer's RemoveMultipleSpaces: re.sub(r"\s\s+", " ", s)
RECURSIVE RemoveMultipleSpaces(_, _)
RemoveMultipleSpaces(s, i) ==
    IF i > Len(s) THEN <<>>
    ELSE IF IsSpace(s[i]) /\ SpaceRunEnd(s, i) > i
         THEN <<32>> \o RemoveMultipleSpaces(s, SpaceRunEnd(s, i) + 1)   \* ' '
         ELSE <<s[i]>> \o RemoveMultipleSpaces(s, i + 1)

\* the number of words jiwer's default transform makes of a sentence:
\* RemoveMultipleSpaces, Strip, then split(" ") without the empty pieces
WordCount(s) ==
    LET t == strip(RemoveMultipleSpaces(s, 1))
    IN  Cardinality({i \in DOMAIN t : t[i] # 32 /\ (i = 1 \/ t[i - 1] = 32)})   \* ' ', ' '

\* jiwer.process_words(reference, hypothesis) is a black box: some
\* alignment of the two word sequences, so that hits + substitutions +
\* deletions is the length of the reference and hits + substitutions +
\* insertions the length of the hypothesis
Alignments(reference, hypothesis) ==
    {o \in [hits : 0..WordCount(reference), substitutions : 0..WordCount(reference),
            deletions : 0..WordCount(reference), insertions : 0..WordCount(hypothesis)] :
        /\ o.hits + o.substitutions + o.deletions = WordCount(reference)
        /\ o.hits + o.substitutions + o.insertions = WordCount(hypothesis)}

\* the counts jiwer may report for a reference that is no str
OtherAlignments == [hits : 0..1, substitutions : 0..1, deletions : 0..1, insertions : 0..1]

\* what the call of jiwer.process_words on line 49 may do: return an
\* alignment of the words when the reference is a str; for a reference
\* that is a number nothing in wer_utils.py limits it, it may raise or
\* return any counts
JiwerOutcomes(reference, hypothesis) ==
    IF reference.kind = "str"
    THEN {[raised |-> FALSE, output |-> o] : o \in Alignments(reference.s, hypothesis)}
    ELSE {[raised |-> TRUE]} \cup {[raised |-> FALSE, output |-> o] : o \in OtherAlignments}

\* a value of a Series or a column: NaN/None, or the number num/den
NA == [na |-> TRUE, num |-> 0, den |-> 1]
Num(n) == [na |-> FALSE, num |-> n, den |-> 1]
Frac(n, d) == [na |-> FALSE, num |-> n, den |-> d]

\* the Series calculate_wer_measures returns, as its (label, value) items
ShortSeries == << <<"wer", NA>>, <<"errors", Num(0)>>, <<"reference_words", Num(0)>> >>

\* errors = output.substitutions + output.deletions + output.insertions
errors_of(o) == o.substitutions + o.deletions + o.insertions

\* reference_words = output.hits + output.substitutions + output.deletions
reference_words_of(o) == o.hits + o.substitutions + o.deletions

MeasureSeries(o) ==
    << <<"wer", Frac(errors_of(o), reference_words_of(o))>>,
       <<"errors", Num(errors_of(o))>>,
       <<"reference_words", Num(reference_words_of(o))>>,
       <<"substitutions", Num(o.substitutions)>>,
       <<"deletions", Num(o.deletions)>>,
       <<"insertions", Num(o.insertions)>> >>

\* calculate_wer_measures(row); o is what jiwer returns when it is called
calculate_wer_measures(reference, o) ==
    IF reference_missing(reference) THEN ShortSeries ELSE MeasureSeries(o)

Labels(series) == [k \in DOMAIN series |-> series[k][1]]

ValueAt(series, label) ==
    IF \E k \in DOMAIN series : series[k][1] = label
    THEN series[CHOOSE k \in DOMAIN series : series[k][1] = label][2]
    ELSE NA

\* the labels of the six-item Series in sorted order (Index.sort_values)
SortedLabels ==
    <<"deletions", "errors", "insertions", "reference_words", "substitutions", "wer">>

\* The columns of the frame that dataset_out.apply(calculate_wer_measures,
\* axis=1) builds from the Series of the rows (line 59): the labels of the
\* Series when all rows carry the same labels, and otherwise the union of
\* the labels, which pandas sorts.
apply_columns(results) ==
    IF \A i \in DOMAIN results : Labels(results[i]) = Labels(results[1])
    THEN Labels(results[1])
    ELSE SortedLabels

\* the keys of the assignment on line 59
AssignedKeys ==
    <<"wer", "errors", "reference_words", "substitutions", "deletions", "insertions">>

\* dataset_out[[...six keys...]] = frame raises ValueError ("Columns must be
\* same length as key") unless the frame has six columns
assignment_raises(results) == Len(apply_columns(results)) # Len(AssignedKeys)

\* the assignment pairs the keys with the frame's columns by position:
\* the value of the column `key` of dataset_out in row i
assigned_value(results, i, key) ==
    LET k == CHOOSE k \in DOMAIN AssignedKeys : AssignedKeys[k] = key
    IN  ValueAt(results[i], apply_columns(results)[k])

\* valid_data = dataset_out.dropna(subset=['wer'])
valid_rows(results) == {i \in DOMAIN results : ~assigned_value(results, i, "wer").na}

RECURSIVE SumOver(_, _, _)
SumOver(results, rows, key) ==
    IF rows = {} THEN 0
    ELSE LET i == CHOOSE i \in rows : TRUE
         IN  (IF assigned_value(results, i, key).na THEN 0
              ELSE assigned_value(results, i, key).num)
                 + SumOver(results, rows \ {i}, key)

\* lines 63-72: the global WER as the fraction num/den (0.0 is 0/1)
global_wer(results) ==
    LET valid == valid_rows(results)
        total_errors == SumOver(results, valid, "errors")
        total_reference_words == SumOver(results, valid, "reference_words")
    IN  IF valid = {} THEN Frac(0, 1)
        ELSE IF total_reference_words > 0 THEN Frac(total_errors, total_reference_words)
        ELSE Frac(0, 1)

(***************************************************************************)
(* Inputs of calculate_wer_from_dataframe.                                 *)
(***************************************************************************)
\* entries with a text of one and of two words, with a text that is null,
\* a number or zero, with an id that is a number or missing, and with a
\* text that is missing, empty or blank (a space and a no-break space)
GtItems ==
    { GtItem(StrCell(<<49>>), StrCell(<<97, 32, 98>>)),   \* "1", "a b"
      GtItem(StrCell(<<49>>), StrCell(<<97>>)),   \* "1", "a"
      GtItem(StrCell(<<50>>), StrCell(<<97, 32, 98>>)),   \* "2", "a b"
      GtItem(StrCell(<<49>>), NoneCell),   \* "1"
      GtItem(StrCell(<<49>>), IntCell(5)),   \* "1"
      GtItem(StrCell(<<50>>), IntCell(0)),   \* "2"
      GtItem(IntCell(1), StrCell(<<97>>)),   \* "a"
      GtItem(AbsentCell, StrCell(<<97>>)),   \* "a"
      GtItem(StrCell(<<49>>), AbsentCell),   \* "1"
      GtItem(StrCell(<<49>>), StrCell(<<>>)),   \* "1"
      GtItem(StrCell(<<50>>), StrCell(<<32, 160>>)) }   \* "2", " <U+00A0>"

GroundTruthLists == UNION {[1..k -> GtItems] : k \in 0..MaxGT}

WerAudioCells == {IntCell(1), IntCell(2)}

HypothesisCells == {NaNCell, StrCell(<<97, 32, 98>>)}   \* "a b"

(***************************************************************************)
(* calculate_wer_from_dataframe as a state machine.                        *)
(***************************************************************************)
WerState(phase, gt, map, size, rows, results, wer_value) ==
    [ phase |-> phase, ground_truth_list |-> gt, ground_truth_map |-> map, size |-> size,
      rows |-> rows, results |-> results, global_wer |-> wer_value ]

InitWER ==
    /\ \E gt \in GroundTruthLists, size \in 0..MaxRows :
          wer = WerState("load", gt, <<>>, size, <<>>, <<>>, NA)
    /\ nlu = NluIdle
    /\ raw = <<>> /\ text = <<>> /\ step = "idle" /\ run = 1 /\ first = <<>>
    /\ converter = "total"

\* 1. Load and Validate Ground Truth (lines 19-28); ground_truth_list is
\* not read after line 28, and the state keeps it no longer
LoadGroundTruth ==
    /\ wer.phase = "load"
    /\ wer' = IF ground_truth_invalid(wer.ground_truth_list)
                 \/ ground_truth_map_raises(wer.ground_truth_list)
              THEN [wer EXCEPT !.phase = "raised"]
              ELSE [wer EXCEPT !.phase = "reference",
                               !.ground_truth_list = <<>>,
                               !.ground_truth_map = ground_truth_map(wer.ground_truth_list)]
    /\ UNCHANGED <<normVars, nlu>>

\* 2. dataset_out.apply(get_reference, axis=1): one row
GetReference ==
    /\ wer.phase = "reference"
    /\ Len(wer.rows) < wer.size
    /\ \E audio \in WerAudioCells, hyp \in HypothesisCells :
          wer' = [wer EXCEPT !.rows = Append(@,
                     [ audio |-> audio, text_normalized |-> hyp,
                       reference |-> get_reference(wer.ground_truth_map, audio) ])]
    /\ UNCHANGED <<normVars, nlu>>

\* 3. dataset_out.apply(calculate_wer_measures, axis=1): one row
CalculateWerMeasures ==
    /\ wer.phase = "reference"
    /\ Len(wer.rows) = wer.size
    /\ Len(wer.results) < wer.size
    /\ LET row == wer.rows[Len(wer.results) + 1] IN
       IF reference_missing(row.reference)
       THEN wer' = [wer EXCEPT !.results = Append(@, ShortSeries)]
       ELSE \E out \in JiwerOutcomes(row.reference, hypothesis_of(row.text_normalized)) :
               wer' = IF out.raised
                      THEN [wer EXCEPT !.phase = "raised"]
                      ELSE [wer EXCEPT !.results =
                                  Append(@, calculate_wer_measures(row.reference, out.output))]
    /\ UNCHANGED <<normVars, nlu>>

\* What the two column assignments (lines 38 and 59) do on a dataset
\* without rows: apply then returns a copy of the frame instead of a
\* Series per row, and the assignment of that frame to the key(s) raises
\* ValueError unless the pandas release and the number of columns of the
\* dataset let it pass, in which case valid_data is empty.
EmptyFrameOutcomes == {"raised", "done"}

\* the assignment of line 59 and 4. Calculate Global WER (lines 63-74)
CalculateGlobalWer ==
    /\ wer.phase = "reference"
    /\ Len(wer.results) = wer.size
    /\ IF wer.size = 0
       THEN \E outcome \in EmptyFrameOutcomes :
               wer' = IF outcome = "raised"
                      THEN [wer EXCEPT !.phase = "raised"]
                      ELSE [wer EXCEPT !.phase = "done", !.global_wer = global_wer(<<>>)]
       ELSE wer' = IF assignment_raises(wer.results)
                   THEN [wer EXCEPT !.phase = "raised"]
                   ELSE [wer EXCEPT !.phase = "done", !.global_wer = global_wer(wer.results)]
    /\ UNCHANGED <<normVars, nlu>>

NextWER == LoadGroundTruth \/ GetReference \/ CalculateWerMeasures \/ CalculateGlobalWer

SpecWER == InitWER /\ [][NextWER]_vars

(***************************************************************************)
(* Properties of normalize.                                                *)
(***************************************************************************)
AllDigits(s) == s # <<>> /\ \A i \in DOMAIN s : IsDigit(s[i])

\* the words of the digits of a run, one per digit, in order
RECURSIVE SpokenDigits(_)
SpokenDigits(ds) ==
    IF Len(ds) = 1 THEN LowNumwords[DigitValue(ds[1]) + 1]
    ELSE LowNumwords[DigitValue(ds[1]) + 1] \o <<32>> \o SpokenDigits(Tail(ds))   \* " "

\* how a pure digit run is to be rendered: digit by digit when it has 4 or
\* more digits or a leading zero, and as one cardinal otherwise
RenderedNumeral(ds) ==
    IF Len(ds) >= 4 \/ (ds[1] = 48 /\ Len(ds) > 1) THEN SpokenDigits(ds)   \* '0'
    ELSE num2words(int(ds))

Returned == step = "done" /\ run = 1

\* C1: normalize is idempotent: when normalize(normalize(x)) returns, its
\* result is what normalize(x) returned.
C1_Idempotent == (step = "done" /\ run = 2) => text = first

\* C2: normalize renders a pure digit run digit by digit when it has 4 or
\* more digits or starts with '0' and has more than one digit, and as a
\* single cardinal otherwise.
C2_NumeralClassification == (Returned /\ AllDigits(raw)) => text = RenderedNumeral(raw)

C2_Witness == Returned /\ raw = <<48, 57, 50, 50>> /\ text = <<99, 101, 114, 111, 32, 110, 117, 101, 118, 101, 32, 100, 111, 115, 32, 100, 111, 115>>   \* "0922", "cero nueve dos dos"

\* digit groups joined by runs of blanks and hyphens
DigitGroups(s) ==
    /\ AllDigits(<<s[1]>>)
    /\ AllDigits(<<s[Len(s)]>>)
    /\ \A i \in DOMAIN s : IsDigit(s[i]) \/ IsSpace(s[i]) \/ s[i] = 45   \* '-'

\* position i of s holds a blank or hyphen of a run that lies between two digits
BetweenDigits(s, i) ==
    /\ IsSpace(s[i]) \/ s[i] = 45   \* '-'
    /\ \E a \in 1..(i - 1), b \in (i + 1)..Len(s) :
          /\ IsDigit(s[a])
          /\ IsDigit(s[b])
          /\ \A k \in (a + 1)..(b - 1) : IsSpace(s[k]) \/ s[k] = 45   \* '-'

RECURSIVE DropBetweenDigits(_, _)
DropBetweenDigits(s, i) ==
    IF i > Len(s) THEN <<>>
    ELSE (IF BetweenDigits(s, i) THEN <<>> ELSE <<s[i]>>) \o DropBetweenDigits(s, i + 1)

\* C3: the unification pass removes exactly the blanks and hyphens of the
\* runs that lie between two digits, and normalize renders digit groups
\* joined by hyphens or blanks as it renders the groups written contiguously.
C3_DigitUnification ==
    /\ [][step = "unify" => text' = DropBetweenDigits(text, 1)]_vars
    /\ []((Returned /\ raw # <<>> /\ DigitGroups(raw)) => text = RenderedNumeral(SelectSeq(raw, IsDigit)))

C3_Witness == Returned /\ raw = <<56, 53, 45, 50, 48, 45, 50, 53>> /\ text = <<111, 99, 104, 111, 32, 99, 105, 110, 99, 111, 32, 100, 111, 115, 32, 99, 101, 114, 111, 32, 100, 111, 115, 32, 99, 105, 110, 99, 111>>   \* "85-20-25", "ocho cinco dos cero dos cinco"

\* C10: a failure of the number converter never leaves normalize.
C10_ConversionFailureContained == step # "raised"

(***************************************************************************)
(* Properties of the NLU evaluator.                                        *)
(***************************************************************************)
\* the scenario id is absent or null, cannot be parsed as an integer, or
\* is no key of the rule table
Unresolvable(cell) ==
    \/ cell.kind \in {"none", "nan", "absent"}
    \/ cell.kind = "str" /\ ~int_of_str(cell.s).ok
    \/ cell.kind = "str" /\ int_of_str(cell.s).ok /\ int_of_str(cell.s).val \notin 1..15
    \/ cell.kind = "int" /\ cell.n \notin 1..15

Resolved(cell) == ~Unresolvable(cell)

RuleOf(cell) == RULES[IF cell.kind = "int" THEN cell.n ELSE int_of_str(cell.s).val]

\* keyword k occurs in the lower-cased transcript
Occurs(k, t) ==
    LET lowered == lower(t)
    IN  \E off \in 0..(Len(lowered) - Len(k)) : \A j \in DOMAIN k : lowered[off + j] = k[j]

TranscriptOf(cell) == IF cell.kind = "str" THEN cell.s ELSE <<>>

\* C4: a record whose scenario id is unresolvable gets the sentinel result
\* and never makes the evaluation raise, and an evaluation that completes
\* returns one result per record.
C4_FailsClosed ==
    /\ ~(nlu.phase = "raised" /\ Unresolvable(nlu.row.audio))
    /\ (nlu.phase = "returned" /\ Unresolvable(nlu.row.audio)) =>
          /\ nlu.result.intent_predicted = "error"
          /\ nlu.result.slots_found_count = 0
          /\ nlu.result.slots_total_count = 0
          /\ ~nlu.result.intent_success
          /\ ~nlu.result.slots_success
          /\ ~nlu.result.nlu_success
    /\ nlu.phase = "done" => nlu.collected = nlu.size

\* C5 as stated: the intent is matched only if every keyword of the rule
\* occurs in the transcript.
C5_EveryKeyword ==
    (nlu.phase = "returned" /\ Resolved(nlu.row.audio)) =>
        LET rule == RuleOf(nlu.row.audio)
            every == \A k \in DOMAIN rule.keywords :
                        Occurs(rule.keywords[k], TranscriptOf(nlu.row.text_normalized))
        IN  /\ nlu.result.intent_success => every
            /\ ~every => nlu.result.intent_predicted = "no_match"

\* C5 as amended: the intent is matched if and only if at least one keyword
\* of the rule occurs in the lower-cased transcript; otherwise the
\* prediction is "no_match" and intent_success is false.
C5_AnyKeyword ==
    (nlu.phase = "returned" /\ Resolved(nlu.row.audio)) =>
        LET rule == RuleOf(nlu.row.audio)
            some == \E k \in DOMAIN rule.keywords :
                        Occurs(rule.keywords[k], TranscriptOf(nlu.row.text_normalized))
        IN  /\ nlu.result.intent_expected = rule.intent
            /\ some => nlu.result.intent_predicted = rule.intent /\ nlu.result.intent_success
            /\ ~some => nlu.result.intent_predicted = "no_match" /\ ~nlu.result.intent_success

C5_Witness ==
    /\ nlu.phase = "returned"
    /\ nlu.row.audio = IntCell(5)
    /\ nlu.row.text_normalized = StrCell(<<102, 97, 99, 116, 117, 114, 97>>)   \* "factura"
    /\ nlu.result.intent_predicted = "buscar_factura"
    /\ nlu.result.intent_success

\* C6 as stated: a slot is a hit if and only if its score is at least 80.
C6_HitAtLeast80 ==
    (nlu.phase = "returned" /\ Resolved(nlu.row.audio)) =>
        nlu.result.slots_found_count =
            Cardinality({k \in DOMAIN nlu.scores : nlu.scores[k] >= 80})

\* C6 as amended: a slot is a hit if and only if its score is above 85.
C6_HitAbove85 ==
    (nlu.phase = "returned" /\ Resolved(nlu.row.audio)) =>
        /\ DOMAIN nlu.scores = 1..Len(RuleOf(nlu.row.audio).slots)
        /\ nlu.result.slots_found_count =
              Cardinality({k \in DOMAIN nlu.scores : nlu.scores[k] >= 86})

C6_Witness ==
    /\ nlu.phase = "returned"
    /\ Resolved(nlu.row.audio)
    /\ nlu.scores = <<85, 86>>
    /\ nlu.result.slots_found_count = 1

\* C7: the flags of every result are consistent: slots_success is
\* found = total for a resolved rule, 0 <= found <= total = the number of
\* slots of the rule, intent_success is predicted = expected, nlu_success
\* is intent_success and slots_success, and a record with a missed slot
\* has no overall success.
C7_FlagConsistency ==
    nlu.phase = "returned" =>
        LET r == nlu.result
            resolved == Resolved(nlu.row.audio)
        IN  /\ r.slots_success <=> (resolved /\ r.slots_found_count = r.slots_total_count)
            /\ 0 <= r.slots_found_count
            /\ r.slots_found_count <= r.slots_total_count
            /\ r.slots_total_count = IF resolved THEN Len(RuleOf(nlu.row.audio).slots) ELSE 0
            /\ r.intent_success <=> (r.intent_predicted = r.intent_expected)
            /\ r.nlu_success <=> (r.intent_success /\ r.slots_success)
            /\ (r.slots_found_count < r.slots_total_count) => ~r.nlu_success
            /\ (\E k \in DOMAIN nlu.scores : nlu.scores[k] < 80) => ~r.nlu_success

C7_Witness ==
    /\ nlu.phase = "returned"
    /\ nlu.row.audio = IntCell(1)
    /\ nlu.row.text_normalized = StrCell(<<99, 111, 116, 105, 122, 97, 99, 105, 111, 110, 32, 112, 97, 114, 97, 32, 99, 108, 105, 101, 110, 116, 101, 32, 99, 111, 109, 112, 117, 102, 97, 99, 105, 108>>)   \* "cotizacion para cliente compufacil"
    /\ nlu.scores = <<100, 0>>
    /\ nlu.result.intent_success
    /\ ~nlu.result.slots_success
    /\ ~nlu.result.nlu_success

(***************************************************************************)
(* Properties of the WER scorer.                                           *)
(***************************************************************************)
\* the record has a reference: a text that is not empty, or a number
\* other than 0
Referenced(row) ==
    \/ row.reference.kind = "str" /\ row.reference.s # <<>>
    \/ row.reference.kind = "int" /\ row.reference.n # 0

RECURSIVE SumLabel(_, _, _)
SumLabel(rows, results, label) ==
    IF rows = <<>> THEN 0
    ELSE (IF Referenced(rows[1]) THEN ValueAt(results[1], label).num ELSE 0)
            + SumLabel(Tail(rows), Tail(results), label)

\* C8: the global WER is the sum of the errors of the records that have a
\* reference divided by the sum of their reference words, and 0.0 when
\* that sum is 0; no corpus makes the aggregation fail.  The aggregation
\* is reached once the ground truth is loaded (its list is consumed) and
\* every record has its measures.
C8_CorpusWer ==
    (/\ wer.phase \in {"done", "raised"}
     /\ wer.ground_truth_list = <<>>
     /\ Len(wer.results) = wer.size) =>
        LET errors == SumLabel(wer.rows, wer.results, "substitutions")
                        + SumLabel(wer.rows, wer.results, "deletions")
                        + SumLabel(wer.rows, wer.results, "insertions")
            words == SumLabel(wer.rows, wer.results, "reference_words")
        IN  /\ wer.phase = "done"
            /\ ~wer.global_wer.na
            /\ IF words = 0 THEN wer.global_wer.num = 0
               ELSE wer.global_wer.num * words = errors * wer.global_wer.den

\* the text field of a ground-truth entry is missing or blank
MissingOrBlank(item) ==
    \/ item.text.kind = "absent"
    \/ item.text.kind = "str" /\ \A i \in DOMAIN item.text.s : IsSpace(item.text.s[i])

\* C9: a ground-truth entry with a missing or blank text makes the call
\* raise at load time, before any record is looked up or scored and
\* without a result, and nothing follows the raise; every reference that
\* is scored is non-empty.
C9_ValidationPrecedesScoring ==
    /\ [][(wer.phase = "load" /\ \E i \in DOMAIN wer.ground_truth_list :
                                    MissingOrBlank(wer.ground_truth_list[i])) =>
            /\ wer'.phase = "raised"
            /\ wer'.rows = <<>>
            /\ wer'.results = <<>>
            /\ wer'.global_wer = NA]_vars
    /\ [][wer.phase = "raised" => wer' = wer]_vars
    /\ [](\A i \in DOMAIN wer.results :
            Len(wer.results[i]) = 6 =>
                /\ wer.rows[i].reference.kind \in {"str", "int"}
                /\ wer.rows[i].reference.kind = "str" =>
                      \E j \in DOMAIN wer.rows[i].reference.s :
                          ~IsSpace(wer.rows[i].reference.s[j]))

C9_Witness ==
    /\ wer.phase = "raised"
    /\ Len(wer.ground_truth_list) = 2
    /\ wer.ground_truth_list[1].text = StrCell(<<97, 32, 98>>)   \* "a b"
    /\ wer.ground_truth_list[2].text = StrCell(<<32, 160>>)   \* " <U+00A0>"
    /\ wer.rows = <<>>

====
